---- MODULE Spec2Model ----
(***************************************************************************)
(* Reconciliation engine of mongo-sync: the server side exchange           *)
(* (SyncService.processSync and the older SyncService.processChanges), the *)
(* replica side exchange (OfflineSyncService.syncCollection) and the retry *)
(* queue (SyncRetryService).                                               *)
(*                                                                         *)
(* Every await of the server code on the store is a step of its own, so    *)
(* that two exchanges interleave exactly where the event loop lets them.   *)
(***************************************************************************)
EXTENDS Integers, Sequences, FiniteSets, TLC

\* ------------------------------------------------------------------ bounds
MaxTime == 2          \* the clock (Date.now()) runs over 1..MaxTime
MaxTs == 2            \* updatedAt of a pushed document runs over 1..MaxTs
MaxBatch == 2         \* documents per changedDocs batch
MaxExchanges == 2     \* exchanges started per run
MaxPending == 1       \* calls of registerFailedSync per run

Actors == {"A", "B"}
Ids == {"1", "2"}
Vals == {"a", "b"}
NoId == ""            \* a document pushed without id
NoOwner == "none"     \* the owner field is absent from the document
Time == 1..MaxTime
Stamps == 1..MaxTs

\* ------------------------------------------------------------- documents
\* A document on the wire, in the authoritative store and in a replica.  sUA is
\* the serverUpdatedAt stamp, 0 when the field is absent; modified is _modified,
\* FALSE when the field is absent; lSA is lastSyncedAt, Undefined when the field
\* is absent, as it is in every document the services themselves write.
Undefined == -1

Doc(id, ts, owner, val, del, sua) ==
  [id |-> id, updatedAt |-> ts, owner |-> owner, val |-> val,
   deleted |-> del, sUA |-> sua, modified |-> FALSE, lSA |-> Undefined]

\* The content of a document: what the replica and the store have to agree on.
Content(d) == [id |-> d.id, updatedAt |-> d.updatedAt, val |-> d.val, deleted |-> d.deleted]

\* collection.findOne({ id }): the first document of the collection, in natural
\* order, with that id (<<>> when there is none).  No unique index on id is
\* ever created, so the collection may hold several.
RECURSIVE FindOneIn(_, _)
FindOneIn(coll, id) ==
  IF coll = <<>> THEN <<>>
  ELSE IF Head(coll).id = id THEN <<Head(coll)>>
  ELSE FindOneIn(Tail(coll), id)

\* The fields { $set: fields } writes over a stored document: a field absent from
\* `fields` (owner, _deleted, _modified) keeps its stored value.
SetFields(old, fields) ==
  [id |-> fields.id,
   updatedAt |-> fields.updatedAt,
   owner |-> IF fields.owner = NoOwner THEN old.owner ELSE fields.owner,
   val |-> fields.val,
   deleted |-> (fields.deleted \/ old.deleted),
   sUA |-> IF fields.sUA = 0 THEN old.sUA ELSE fields.sUA,
   modified |-> (fields.modified \/ old.modified),
   lSA |-> IF fields.lSA = Undefined THEN old.lSA ELSE fields.lSA]

\* collection.updateOne({ id }, { $set: fields }): the first match is updated.
RECURSIVE UpdateOneIn(_, _, _)
UpdateOneIn(coll, id, fields) ==
  IF coll = <<>> THEN <<>>
  ELSE IF Head(coll).id = id THEN <<SetFields(Head(coll), fields)>> \o Tail(coll)
  ELSE <<Head(coll)>> \o UpdateOneIn(Tail(coll), id, fields)

\* collection.insertOne(doc)
InsertOneIn(coll, d) == Append(coll, d)

\* The find of processSync with $gte in place of $gt.
RECURSIVE FindSinceInclusive(_, _, _)
FindSinceInclusive(coll, since, owner) ==
  IF coll = <<>> THEN <<>>
  ELSE (IF Head(coll).sUA >= since /\ (owner = NoOwner \/ Head(coll).owner = owner)
        THEN <<Head(coll)>> ELSE <<>>) \o FindSinceInclusive(Tail(coll), since, owner)

\* collection.find(query).toArray() of processSync: serverUpdatedAt > timestamp,
\* and the owner filter when one applies (owner = NoOwner: no filter).
RECURSIVE FindSince(_, _, _)
FindSince(coll, since, owner) ==
  IF coll = <<>> THEN <<>>
  ELSE (IF Head(coll).sUA > since /\ (owner = NoOwner \/ Head(coll).owner = owner)
        THEN <<Head(coll)>> ELSE <<>>) \o FindSince(Tail(coll), since, owner)

\* collection.find({ updatedAt: { $gt: since }, [userIdField]: userId }).toArray()
\* of getChanges: the owner filter is always part of the query.
RECURSIVE FindChanges(_, _, _)
FindChanges(coll, since, userId) ==
  IF coll = <<>> THEN <<>>
  ELSE (IF Head(coll).updatedAt > since /\ Head(coll).owner = userId
        THEN <<Head(coll)>> ELSE <<>>) \o FindChanges(Tail(coll), since, userId)

Range(s) == {s[k] : k \in 1..Len(s)}

\* --------------------------------------------------------------- variables
VARIABLES
  now,        \* Date.now()
  config,     \* ServerSyncConfig: fixed at construction
  store,      \* the authoritative collection, in natural order
  ex,         \* per actor: the exchange in flight
  started,    \* exchanges started so far
  seen,       \* per actor: the documents its responses have delivered
  lastSync,   \* per actor: localStorage mongosync_<collection>_lastSync
  local,      \* per actor: the replica's collection, id -> <<>> or <<doc>>
  sent,       \* per actor: the changedDocs batch of its last submitted request
  prev,       \* per actor: what its first submission of `sent` had left behind
  pendingAttempts,  \* SyncRetryService.pendingAttempts
  storage,          \* StorageMap 'mongosync_pending_attempts'
  retryTimerId,     \* SyncRetryService.retryTimerId is set
  security,         \* config.security and the admission middleware the application mounts
  rateLimits,       \* sync-middleware: rateLimits[clientId], per client
  suspiciousIPs,    \* SecurityMiddleware.suspiciousIPs
  blockList,        \* SecurityMiddleware.blockList
  http,             \* per client: the request on its way through the route
  admits,           \* per client and instant: the requests rateLimitMiddleware let through
  loading,          \* SyncRetryService.loadPendingAttempts: its position and what storage.get read
  pass,             \* SyncRetryService.processRetries: the pass under way
  online,           \* navigator.onLine
  nextId,           \* crypto.randomUUID(): the ids handed out so far, plus one
  pendingSubject,   \* the last value of pendingCount$
  history,          \* per attempt id: the re-deliveries that failed, and how it left the queue
  lastSyncedVersions,  \* DeltaSyncService.lastSyncedVersions[collection][docId]: <<>> or <<doc>>
  unit,             \* the last call of generateDelta: its arguments and what it returned
  patched,          \* the last call of applyDelta: what it returned
  applied,          \* the last call of applyDelta on a document of the receiver
  conflictResolution,  \* config.conflictResolution of the replicas
  syncState,        \* per replica: the value of syncStateSubject
  resolving,        \* per replica: the call of resolveConflict under way
  syncAlls,         \* per replica: the calls of syncAll made, each with its position
  increments,       \* per replica: the calls of incrementPendingChanges made, each with the isSyncing it read
  ipRateLimiter,    \* SecurityMiddleware.ipRateLimiter: per address <<>> or <<its limiter>>
  stricterLimiter,  \* SecurityMiddleware.stricterLimiter
  timers,           \* the callbacks setTimeout has pending, each with the instant it is due
  bruteForceAttempts,   \* bruteForceProtection: attempts[ip:endpoint]
  anomalyThresholds,    \* SecurityMiddleware.anomalyThresholds[ip]: <<>> or <<{ count, lastTime }>>
  responseTimesHistory, \* createSyncRouter's SecurityMiddleware: responseTimesHistory[ip]
  strictAdmits,     \* per client and instant: the requests let through as a suspect's
  spacing,          \* per client: the intervals between its measured requests, summed up
  syncQueue,        \* DatabaseService.syncQueue
  syncThrottleTimeout,  \* DatabaseService.syncThrottleTimeout is set
  runs,             \* the calls of processSyncQueue under way: the collections left to each
  writes,           \* the local writes processSyncQueue has not yet taken up, with their instants
  syncs,            \* the calls of syncCollection processSyncQueue has made
  encryptionKey,    \* EncryptionService.encryptionKey
  db,               \* the replica's database: per collection, its documents as stored
  rotation          \* the call of rotateEncryptionKey: its position, arguments and locals

vars == <<now, config, store, ex, started, seen, lastSync, local, sent, prev,
          pendingAttempts, storage, retryTimerId,
          security, rateLimits, suspiciousIPs, blockList, http, admits,
          loading, pass, online, nextId, pendingSubject, history,
          lastSyncedVersions, unit, patched, applied,
          conflictResolution, syncState, resolving, syncAlls, increments,
          ipRateLimiter, stricterLimiter, timers, bruteForceAttempts, anomalyThresholds,
          responseTimesHistory, strictAdmits, spacing,
          syncQueue, syncThrottleTimeout, runs, writes, syncs,
          encryptionKey, db, rotation>>

serverVars == <<config, store>>
clientVars == <<seen, lastSync, local, sent, prev>>
retryVars == <<pendingAttempts, storage, retryTimerId>>
admitVars == <<security, rateLimits, suspiciousIPs, blockList, http, admits>>
queueVars == <<loading, pass, online, nextId, pendingSubject, history>>
deltaVars == <<lastSyncedVersions, unit, patched, applied>>
syncVars == <<conflictResolution, syncState, resolving, syncAlls, increments>>
monitorVars == <<ipRateLimiter, stricterLimiter, timers, bruteForceAttempts, anomalyThresholds,
                 responseTimesHistory, strictAdmits, spacing>>
appVars == <<syncQueue, syncThrottleTimeout, runs, writes, syncs>>
workerVars == <<encryptionKey, db, rotation>>
restVars == <<admitVars, queueVars, deltaVars, syncVars, monitorVars, appVars, workerVars>>

\* ------------------------------------------------------------------ state
NoResults == [added |-> 0, updated |-> 0, conflicts |-> 0, processed |-> 0, errors |-> 0]

\* pc: idle | loop | found | write | queried | responded | failed | returned
\* doc, existing: the loop's doc and existingDoc, kept until the next iteration
\* last: the outcome of the document the loop handled last
\*       none | rejected | error | added | updated | conflict | resolved | noop | deleted
Idle == [pc |-> "idle", raw |-> TRUE, since |-> 0, batch |-> <<>>, n |-> 0,
         doc |-> <<>>, existing |-> <<>>, op |-> "none", res |-> NoResults,
         last |-> "none", docs |-> <<>>, timestamp |-> 0]

Busy(a) == ex[a].pc # "idle"

\* No submission has been repeated yet.
NoPrev == [set |-> FALSE, res |-> NoResults, store |-> <<>>]

\* getUserId(req) when both getUserId and userIdField are configured.
UserId(a) == IF config.ownership THEN a ELSE NoOwner

\* ------------------------------------------------- SyncService.processSync
\* The documents a raw request may push: every version of document "1", its
\* tombstone (_deleted: true), one version of every other document, and a
\* document without id.  The owner field is pushed only where the deployment
\* has one.
Owners == IF config.ownership THEN Actors \cup {NoOwner} ELSE {NoOwner}

RawDocs ==
  {Doc("1", ts, o, v, FALSE, 0) : ts \in Stamps, v \in Vals, o \in Owners}
  \cup {Doc("1", MaxTs, NoOwner, "a", TRUE, 0)}
  \cup {Doc(id, MaxTs, NoOwner, "a", FALSE, 0) : id \in (Ids \ {"1"}) \cup {NoId}}

\* collectionConfig.validator(doc, req), when one is configured.
Validator(d) == config.validator = "rejectB" => d.val # "b"

\* validateDoc without the check of the owner field.
ValidateDocAnyOwner(d, a) ==
  /\ d.id # NoId
  /\ Validator(d)

\* validateDoc(doc, req, collectionName)
ValidateDoc(d, a) ==
  /\ d.id # NoId
  /\ ~(UserId(a) # NoOwner /\ d.owner # NoOwner /\ d.owner # UserId(a))
  /\ Validator(d)

\* doc[userIdField] = userId when configured and not present
WithUserId(d, a) ==
  IF UserId(a) # NoOwner /\ d.owner = NoOwner THEN [d EXCEPT !.owner = UserId(a)] ELSE d

\* collectionConfig.conflictHandler(existingDoc, doc, req): <<>> when it declines.
\* ("none": no handler is configured, and Resolve does not call it.)
ConflictHandler(existing, d) ==
  IF config.handler = "client" THEN <<d>> ELSE <<>>

\* The next document of changedDocs: the element the loop is at, which a raw
\* request reveals only when the loop reaches it.
NextDocs(e) ==
  IF e.raw THEN (IF e.n < MaxBatch THEN RawDocs ELSE {})
  ELSE (IF e.n < Len(e.batch) THEN {e.batch[e.n + 1]} ELSE {})

\* A raw request may end its batch at any length up to MaxBatch.
BatchDone(e) == IF e.raw THEN TRUE ELSE e.n = Len(e.batch)

\* `continue`, or the catch of the loop, before findOne has answered: document d
\* is left as it was pushed and the loop goes on.
Skip(e, d, outcome) == [e EXCEPT !.pc = "loop", !.n = e.n + 1, !.last = outcome,
                                 !.doc = <<d>>, !.existing = <<>>, !.op = "none"]

\* Done without the try / catch of the loop: the error leaves processSync.
DoneRethrows(e, outcome) ==
  IF outcome = "error" THEN [e EXCEPT !.pc = "failed", !.last = outcome, !.op = "none"]
  ELSE [e EXCEPT !.pc = "loop", !.last = outcome, !.op = "none"]

\* The end of an iteration that reached findOne: the loop goes on.
Done(e, outcome) == [e EXCEPT !.pc = "loop", !.last = outcome, !.op = "none"]

\* The route handler's call of processSync with the request's
\* { lastSyncTimestamp, changedDocs }.
ProcessSync(a) ==
  /\ config.variant = "processSync"
  /\ ~Busy(a)
  /\ started < MaxExchanges
  /\ \E since \in 0..now :
       ex' = [ex EXCEPT ![a] = [Idle EXCEPT !.pc = "loop", !.raw = TRUE, !.since = since]]
  /\ started' = started + 1

\* POST /sync/:collection with { lastSyncTimestamp, changedDocs } from any client,
\* on a route with no admission middleware.
StartSync(a) ==
  /\ ProcessSync(a)
  /\ UNCHANGED <<now, serverVars, clientVars, retryVars, restVars>>

\* The same, when no other exchange is in flight.
SerialSync(a) ==
  /\ \A b \in Actors : ~Busy(b)
  /\ StartSync(a)

\* validateDoc, the userId default and collection.findOne({ id: doc.id }).
FindOne(a) ==
  /\ config.variant = "processSync"
  /\ ex[a].pc = "loop"
  /\ \E d \in NextDocs(ex[a]) :
       ex' = [ex EXCEPT ![a] =
                IF ~ValidateDoc(d, a) THEN Skip(ex[a], d, "rejected")
                ELSE [ex[a] EXCEPT !.pc = "found", !.n = ex[a].n + 1, !.last = "none",
                                   !.doc = <<WithUserId(d, a)>>,
                                   !.existing = FindOneIn(store, d.id)]]
  /\ UNCHANGED <<now, serverVars, started, clientVars, retryVars, restVars>>

\* findOne rejects: the catch of the loop logs the error and goes on.
FindOneThrows(a) ==
  /\ config.variant = "processSync"
  /\ ex[a].pc = "loop"
  /\ \E d \in NextDocs(ex[a]) :
       /\ ValidateDoc(d, a)
       /\ ex' = [ex EXCEPT ![a] = Skip(ex[a], WithUserId(d, a), "error")]
  /\ UNCHANGED <<now, serverVars, started, clientVars, retryVars, restVars>>

\* Resolve with the tie given to the server (< for <=).
ResolveTieToServer(existing, d) ==
  IF existing = <<>> THEN "insert"
  ELSE IF existing[1].updatedAt < d.updatedAt THEN "update"
  ELSE IF config.handler # "none" /\ ConflictHandler(existing[1], d) # <<>> THEN "resolve"
  ELSE "conflict"

\* The branch processSync takes on existingDoc.
Resolve(existing, d) ==
  IF existing = <<>> THEN "insert"
  ELSE IF existing[1].updatedAt <= d.updatedAt THEN "update"
  ELSE IF config.handler # "none" /\ ConflictHandler(existing[1], d) # <<>> THEN "resolve"
  ELSE "conflict"

Decide(a) ==
  /\ ex[a].pc = "found"
  /\ LET e == ex[a]
         d == e.doc[1]
         op == Resolve(e.existing, d)
     IN ex' = [ex EXCEPT ![a] =
                 IF op = "conflict"
                 THEN [Done(e, "conflict") EXCEPT !.res.conflicts = e.res.conflicts + 1]
                 ELSE [e EXCEPT !.pc = "write", !.op = op,
                                !.doc = <<[(IF op = "resolve"
                                            THEN ConflictHandler(e.existing[1], d)[1]
                                            ELSE d) EXCEPT !.sUA = now]>>]]
  /\ UNCHANGED <<now, serverVars, started, clientVars, retryVars, restVars>>

\* ApplyWrite with every write an updateOne, which inserts nothing.
ApplyWriteUpdateOnly(coll, op, d) == UpdateOneIn(coll, d.id, d)

\* ApplyWrite with every write an insertOne.
ApplyWriteInsertOnly(coll, op, d) == InsertOneIn(coll, d)

\* The store executes insertOne / updateOne; the tally follows.
ApplyWrite(coll, op, d) ==
  IF op = "insert" THEN InsertOneIn(coll, d) ELSE UpdateOneIn(coll, d.id, d)

Tally(res, op) ==
  IF op = "insert" THEN [res EXCEPT !.added = res.added + 1]
  ELSE IF op = "update" THEN [res EXCEPT !.updated = res.updated + 1]
  ELSE [res EXCEPT !.conflicts = res.conflicts + 1]

Outcome(op) ==
  IF op = "insert" THEN "added" ELSE IF op = "update" THEN "updated" ELSE "resolved"

Write(a) ==
  /\ ex[a].pc = "write"
  /\ store' = ApplyWrite(store, ex[a].op, ex[a].doc[1])
  /\ ex' = [ex EXCEPT ![a] =
              [Done(ex[a], Outcome(ex[a].op)) EXCEPT !.res = Tally(ex[a].res, ex[a].op)]]
  /\ UNCHANGED <<now, config, started, clientVars, retryVars, restVars>>

\* insertOne / updateOne rejects: caught, logged, next document.
WriteThrows(a) ==
  /\ ex[a].pc = "write"
  /\ ex' = [ex EXCEPT ![a] = Done(ex[a], "error")]
  /\ UNCHANGED <<now, serverVars, started, clientVars, retryVars, restVars>>

\* collection.find({ serverUpdatedAt: { $gt: timestamp }, [userIdField]: userId })
Query(a) ==
  /\ config.variant = "processSync"
  /\ ex[a].pc = "loop"
  /\ BatchDone(ex[a])
  /\ ex' = [ex EXCEPT ![a] = [ex[a] EXCEPT !.pc = "queried",
                                         !.docs = FindSince(store, ex[a].since, UserId(a))]]
  /\ UNCHANGED <<now, serverVars, started, clientVars, retryVars, restVars>>

\* find rejects: processSync rejects and the route answers 500.
QueryThrows(a) ==
  /\ config.variant = "processSync"
  /\ ex[a].pc = "loop"
  /\ BatchDone(ex[a])
  /\ ex' = [ex EXCEPT ![a] = [ex[a] EXCEPT !.pc = "failed"]]
  /\ UNCHANGED <<now, serverVars, started, clientVars, retryVars, restVars>>

\* return { timestamp: Date.now(), docs, syncResults }
Respond(a) ==
  /\ ex[a].pc = "queried"
  /\ ex' = [ex EXCEPT ![a] = [ex[a] EXCEPT !.pc = "responded", !.timestamp = now]]
  /\ UNCHANGED <<now, serverVars, started, clientVars, retryVars, restVars>>

\* --------------------------------------------- SyncService.processChanges
\* The older service: no serverUpdatedAt, replaceOne / deleteOne, and an owner
\* field that is always configured (userIdField defaults to 'userId').

\* collection.replaceOne({ id }, doc): the first match is replaced.
RECURSIVE ReplaceOneIn(_, _, _)
ReplaceOneIn(coll, id, d) ==
  IF coll = <<>> THEN <<>>
  ELSE IF Head(coll).id = id THEN <<d>> \o Tail(coll)
  ELSE <<Head(coll)>> \o ReplaceOneIn(Tail(coll), id, d)

\* collection.deleteOne({ id }): the first match is removed.
RECURSIVE DeleteOneIn(_, _)
DeleteOneIn(coll, id) ==
  IF coll = <<>> THEN <<>>
  ELSE IF Head(coll).id = id THEN Tail(coll)
  ELSE <<Head(coll)>> \o DeleteOneIn(Tail(coll), id)

\* uuidv4(): an id no stored document has.
GenIds == <<"u1", "u2", "u3", "u4", "u5", "u6">>

FreshId(coll) ==
  GenIds[1 + Cardinality({k \in 1..Len(coll) : coll[k].id \in Range(GenIds)})]

\* The changes a caller may hand to processChanges.
ChangeDocs ==
  {Doc("1", ts, o, v, FALSE, 0) : ts \in Stamps, v \in Vals, o \in Actors \cup {NoOwner}}
  \cup {Doc("1", ts, o, "a", TRUE, 0) : ts \in Stamps, o \in Actors \cup {NoOwner}}
  \cup {Doc(id, MaxTs, NoOwner, "a", FALSE, 0) : id \in (Ids \ {"1"}) \cup {NoId}}

\* processChanges(collectionName, changes, userId)
StartChanges(a) ==
  /\ config.variant = "processChanges"
  /\ \A b \in Actors : ~Busy(b)
  /\ started < MaxExchanges
  /\ ex' = [ex EXCEPT ![a] = [Idle EXCEPT !.pc = "loop", !.raw = TRUE]]
  /\ started' = started + 1
  /\ UNCHANGED <<now, serverVars, clientVars, retryVars, restVars>>

\* validator, then "Documento não pertence ao usuário"
ChangeAllowed(d, a) ==
  /\ Validator(d)
  /\ ~(d.owner # NoOwner /\ d.owner # a)

Failed(e, d, outcome) == [Skip(e, d, outcome) EXCEPT !.res.errors = e.res.errors + 1]

\* The checks, change[userIdField] = userId and collection.findOne({ id: change.id }).
ChangesFindOne(a) ==
  /\ config.variant = "processChanges"
  /\ ex[a].pc = "loop"
  /\ \E d \in (IF ex[a].n < MaxBatch THEN ChangeDocs ELSE {}) :
       ex' = [ex EXCEPT ![a] =
                IF ~ChangeAllowed(d, a) THEN Failed(ex[a], d, "rejected")
                ELSE [ex[a] EXCEPT !.pc = "foundChange", !.n = ex[a].n + 1,
                                   !.last = "none",
                                   !.doc = <<[d EXCEPT !.owner = a]>>,
                                   !.existing = FindOneIn(store, d.id)]]
  /\ UNCHANGED <<now, serverVars, started, clientVars, retryVars, restVars>>

ChangesFindOneThrows(a) ==
  /\ config.variant = "processChanges"
  /\ ex[a].pc = "loop"
  /\ \E d \in (IF ex[a].n < MaxBatch THEN ChangeDocs ELSE {}) :
       /\ ChangeAllowed(d, a)
       /\ ex' = [ex EXCEPT ![a] = Failed(ex[a], [d EXCEPT !.owner = a], "error")]
  /\ UNCHANGED <<now, serverVars, started, clientVars, retryVars, restVars>>

\* The branch processChanges takes on existingDoc.
ResolveChange(existing, d) ==
  IF existing = <<>> THEN (IF d.deleted THEN "noop" ELSE "insert")
  ELSE IF existing[1].updatedAt > d.updatedAt
       THEN (IF config.handler # "none" /\ ConflictHandler(existing[1], d) # <<>>
             THEN "resolve" ELSE "conflict")
       ELSE (IF d.deleted THEN "delete" ELSE "replace")

ChangesDecide(a) ==
  /\ ex[a].pc = "foundChange"
  /\ LET e == ex[a]
         d == e.doc[1]
         op == ResolveChange(e.existing, d)
     IN ex' = [ex EXCEPT ![a] =
          IF op = "noop"
          THEN [Done(e, "noop") EXCEPT !.res.processed = e.res.processed + 1]
          ELSE IF op = "conflict"
          THEN [Done(e, "conflict") EXCEPT !.res.conflicts = e.res.conflicts + 1,
                                           !.docs = Append(e.docs, e.existing[1])]
          ELSE IF op = "resolve"
          THEN [e EXCEPT !.pc = "writeChange", !.op = op,
                         !.res.conflicts = e.res.conflicts + 1,
                         !.doc = ConflictHandler(e.existing[1], d)]
          ELSE [e EXCEPT !.pc = "writeChange", !.op = op,
                         !.doc = <<IF d.id = NoId THEN [d EXCEPT !.id = FreshId(store)]
                                   ELSE d>>]]
  /\ UNCHANGED <<now, serverVars, started, clientVars, retryVars, restVars>>

\* The store executes insertOne / replaceOne / deleteOne.
ApplyChange(coll, op, d) ==
  IF op = "insert" THEN InsertOneIn(coll, d)
  ELSE IF op = "delete" THEN DeleteOneIn(coll, d.id)
  ELSE ReplaceOneIn(coll, d.id, d)

ChangeOutcome(op) ==
  IF op = "insert" THEN "added" ELSE IF op = "delete" THEN "deleted"
  ELSE IF op = "replace" THEN "updated" ELSE "resolved"

ChangesWrite(a) ==
  /\ ex[a].pc = "writeChange"
  /\ store' = ApplyChange(store, ex[a].op, ex[a].doc[1])
  /\ ex' = [ex EXCEPT ![a] =
              [Done(ex[a], ChangeOutcome(ex[a].op)) EXCEPT
                 !.res.processed = ex[a].res.processed + 1,
                 !.docs = IF ex[a].op = "resolve" THEN Append(ex[a].docs, ex[a].doc[1])
                          ELSE ex[a].docs]]
  /\ UNCHANGED <<now, config, started, clientVars, retryVars, restVars>>

\* The store operation rejects: errors++, details, next change.
ChangesWriteThrows(a) ==
  /\ ex[a].pc = "writeChange"
  /\ ex' = [ex EXCEPT ![a] = [Done(ex[a], "error") EXCEPT !.res.errors = ex[a].res.errors + 1]]
  /\ UNCHANGED <<now, serverVars, started, clientVars, retryVars, restVars>>

\* return results
ReturnChanges(a) ==
  /\ config.variant = "processChanges"
  /\ ex[a].pc = "loop"
  /\ ex' = [ex EXCEPT ![a] = [ex[a] EXCEPT !.pc = "returned"]]
  /\ UNCHANGED <<now, serverVars, started, clientVars, retryVars, restVars>>

\* getChanges(collectionName, since, userId): one find, and its result returned.
GetChanges(a) ==
  /\ config.variant = "processChanges"
  /\ \A b \in Actors : ~Busy(b)
  /\ started < MaxExchanges
  /\ \E since \in 0..now :
       ex' = [ex EXCEPT ![a] = [Idle EXCEPT !.pc = "returned", !.raw = TRUE, !.since = since,
                                           !.docs = FindChanges(store, since, a)]]
  /\ started' = started + 1
  /\ UNCHANGED <<now, serverVars, clientVars, retryVars, restVars>>

\* The client of a raw request takes the response (or the 500).
Finish(a) ==
  /\ ex[a].raw
  /\ ex[a].pc \in {"responded", "failed", "returned"}
  /\ ex' = [ex EXCEPT ![a] = Idle]
  /\ UNCHANGED <<now, serverVars, started, clientVars, retryVars, restVars>>

\* ------------------------------------- OfflineSyncService (the replica)
\* The documents the application edits on a replica.
EditIds == {"1"}

\* collection.find() answers in the order of the primary key.
IdOrder == <<"1", "2">>

\* addTask (the document is new to the replica) / updateTask (it is not), with
\* updatedAt: Date.now() of the replica's own clock.
Edit(a) ==
  /\ \E id \in EditIds, ts \in Stamps, v \in Vals :
       local' = [local EXCEPT ![a][id] =
                   IF local[a][id] = <<>> THEN <<Doc(id, ts, NoOwner, v, FALSE, 0)>>
                   ELSE <<[local[a][id][1] EXCEPT !.updatedAt = ts, !.val = v,
                                                   !.modified = TRUE]>>]
  /\ UNCHANGED <<now, serverVars, ex, started, seen, lastSync, sent, prev, retryVars, restVars>>

\* An edit on a replica that has not yet exchanged.
FreshEdit(a) ==
  /\ ex[a] = Idle
  /\ Edit(a)

\* collection.find({ selector: { updatedAt: { $gt: parseInt(lastSyncTimestamp) } } })
RECURSIVE ChangedSince(_, _, _)
ChangedSince(coll, since, k) ==
  IF k > Len(IdOrder) THEN <<>>
  ELSE (IF coll[IdOrder[k]] # <<>> /\ coll[IdOrder[k]][1].updatedAt > since
        THEN coll[IdOrder[k]] ELSE <<>>) \o ChangedSince(coll, since, k + 1)

\* syncCollection up to the POST: the watermark of localStorage and the local
\* documents changed since.  c is the call, r the replica that makes it: a
\* replica can have calls of syncCollection under way next to each other
\* (syncAll, resolveConflict, the application).
Post(c, r) ==
  /\ config.variant = "processSync"
  /\ ~Busy(c)
  /\ started < MaxExchanges
  /\ LET changedDocs == ChangedSince(local[r], lastSync[r], 1)
     IN /\ ex' = [ex EXCEPT ![c] = [Idle EXCEPT !.pc = "loop", !.raw = FALSE,
                                               !.since = lastSync[r],
                                               !.batch = changedDocs]]
        /\ sent' = [sent EXCEPT ![r] = changedDocs]
  /\ started' = started + 1

\* A call of syncCollection by the application.
SyncCollectionOf(c, r) ==
  /\ Post(c, r)
  /\ UNCHANGED <<now, serverVars, seen, lastSync, local, prev, retryVars, restVars>>

\* A replica's only call of syncCollection.
SyncCollection(a) == SyncCollectionOf(a, a)

\* The same, when no other exchange is in flight.
SerialCollection(a) ==
  /\ \A b \in Actors : ~Busy(b)
  /\ SyncCollection(a)

\* localDoc.lastSyncedAt: no code of the repository writes the field, so that it
\* reads as undefined unless the document came with it.
LastSyncedAt(localDoc) == localDoc.lSA

\* x > y of JavaScript: false when y is undefined.
GreaterThan(x, y) == y # Undefined /\ x > y

\* hasConflict(localDoc, serverDoc)
HasConflict(localDoc, serverDoc) ==
  localDoc.modified /\ GreaterThan(serverDoc.updatedAt, LastSyncedAt(localDoc))

\* handleConflict(collection, localDoc, serverDoc, conflicts): the local
\* document it leaves, by this.config.config.conflictResolution.
HandleConflict(localDoc, serverDoc) ==
  CASE conflictResolution = "server-wins" -> SetFields(localDoc, serverDoc)
    [] conflictResolution = "client-wins" -> localDoc
    [] conflictResolution = "timestamp-wins" ->
         IF serverDoc.updatedAt > localDoc.updatedAt THEN SetFields(localDoc, serverDoc)
         ELSE localDoc
    [] conflictResolution = "manual" -> localDoc

\* The ConflictItem handleConflict pushes under 'manual'.
ConflictItem(localDoc, serverDoc) ==
  [id |-> localDoc.id, localVersion |-> localDoc, serverVersion |-> serverDoc,
   resolved |-> FALSE]

\* ProcessServerDoc with the comparison of updatedAt turned around (< for >).
ProcessServerDocOlder(coll, d) ==
  IF coll[d.id] = <<>> THEN [coll EXCEPT ![d.id] = <<d>>]
  ELSE IF HasConflict(coll[d.id][1], d)
       THEN [coll EXCEPT ![d.id] = <<HandleConflict(coll[d.id][1], d)>>]
  ELSE IF d.updatedAt < coll[d.id][1].updatedAt
       THEN [coll EXCEPT ![d.id] = <<SetFields(coll[d.id][1], d)>>]
  ELSE coll

\* One iteration of processServerDocs.
ProcessServerDoc(coll, d) ==
  IF coll[d.id] = <<>> THEN [coll EXCEPT ![d.id] = <<d>>]
  ELSE IF HasConflict(coll[d.id][1], d)
       THEN [coll EXCEPT ![d.id] = <<HandleConflict(coll[d.id][1], d)>>]
  ELSE IF d.updatedAt > coll[d.id][1].updatedAt
       THEN [coll EXCEPT ![d.id] = <<SetFields(coll[d.id][1], d)>>]
  ELSE coll

RECURSIVE ProcessServerDocs(_, _)
ProcessServerDocs(coll, docs) ==
  IF docs = <<>> THEN coll
  ELSE ProcessServerDocs(ProcessServerDoc(coll, Head(docs)), Tail(docs))

\* The conflicts processServerDocs has collected when its loop ends.
RECURSIVE Conflicts(_, _)
Conflicts(coll, docs) ==
  IF docs = <<>> THEN <<>>
  ELSE LET d == Head(docs)
       IN (IF /\ coll[d.id] # <<>>
              /\ HasConflict(coll[d.id][1], d)
              /\ conflictResolution = "manual"
           THEN <<ConflictItem(coll[d.id][1], d)>> ELSE <<>>)
          \o Conflicts(ProcessServerDoc(coll, d), Tail(docs))

\* The documents of a response whose iteration of processServerDocs does not
\* end in its catch.
RECURSIVE Applied(_, _, _)
Applied(docs, failed, k) ==
  IF k > Len(docs) THEN <<>>
  ELSE (IF k \in failed THEN <<>> ELSE <<docs[k]>>) \o Applied(docs, failed, k + 1)

\* syncCollection of call c of replica r from the response on: processServerDocs
\* with the conflicts it publishes, then the watermark.  For the documents at the positions `failed` a local
\* store operation rejects: processServerDocs logs and goes on.  The response
\* stays readable in ex[c] until the next exchange.
ReceiveOf(c, r, failed) ==
  /\ ~ex[c].raw
  /\ ex[c].pc = "responded"
  /\ local' = [local EXCEPT ![r] = ProcessServerDocs(local[r], Applied(ex[c].docs, failed, 1))]
  /\ lastSync' = [lastSync EXCEPT ![r] = ex[c].timestamp]
  /\ seen' = [seen EXCEPT ![r] = seen[r] \cup Range(ex[c].docs)]
  /\ ex' = [ex EXCEPT ![c] = [ex[c] EXCEPT !.pc = "idle"]]
  /\ syncState' = [syncState EXCEPT ![r].conflicts =
                      @ \o Conflicts(local[r], Applied(ex[c].docs, failed, 1))]
  /\ UNCHANGED <<now, serverVars, started, sent, prev, retryVars,
                 admitVars, queueVars, deltaVars, monitorVars, appVars, workerVars,
                 conflictResolution, resolving, syncAlls, increments>>

\* The same for a replica's only call, with a local store that does not fail.
Receive(a) == ReceiveOf(a, a, {})

\* The same with a local store operation that rejects for one document at least.
ReceiveSkipping(c, r) ==
  \E failed \in SUBSET (1..Len(ex[c].docs)) : failed # {} /\ ReceiveOf(c, r, failed)

\* The first value of syncStateSubject.
\* (error: the field is set, as it is once a syncAll has failed.)
NoSyncState == [isSyncing |-> FALSE, lastSyncTime |-> 0, pendingChanges |-> 0,
                conflicts |-> <<>>, error |-> FALSE]

\* No call of resolveConflict under way.  pc: idle | awaiting | syncing | done |
\* failed;  state: the value of syncStateSubject the call read when it started;
\* conflict: the record it found;  chosen: finalData.
NoCall == [pc |-> "idle", state |-> NoSyncState, conflict |-> <<>>, chosen |-> <<>>]

\* customData of a resolution of the application's own.
CustomData == Doc("1", 1, NoOwner, "b", FALSE, 0)

\* state.conflicts.find(c => c.id === conflictId)
FindConflict(conflicts, id) == SelectSeq(conflicts, LAMBDA c : c.id = id)

\* resolveConflict(conflictId, resolution, customData) up to its first await:
\* it reads the sync state and throws when the state has no such conflict.
ResolveConflict(r, id, resolution) ==
  /\ resolving[r].pc \in {"idle", "done", "failed"}
  /\ LET state == syncState[r]
         found == FindConflict(state.conflicts, id)
     IN resolving' = [resolving EXCEPT ![r] =
          IF found = <<>> THEN [NoCall EXCEPT !.pc = "failed", !.state = state]
          ELSE [pc |-> "awaiting", state |-> state, conflict |-> <<found[1]>>,
                chosen |-> <<CASE resolution = "local" -> found[1].localVersion
                               [] resolution = "server" -> found[1].serverVersion
                               [] resolution = "custom" -> CustomData>>]]
  /\ UNCHANGED <<now, serverVars, ex, started, clientVars, retryVars,
                 admitVars, queueVars, deltaVars, monitorVars, appVars, workerVars,
                 conflictResolution, syncState, syncAlls, increments>>

\* resolveConflict from findOne on: doc.update({ $set: { ...finalData,
\* updatedAt: Date.now() } }) with the clock of the replica, which may agree
\* with the server's or not, the sync state read at the start published without
\* the conflict, and, when online, the POST of syncCollection.
ResolveConflictUpdate(r) ==
  /\ resolving[r].pc = "awaiting"
  /\ ~Busy(r)
  /\ LET call == resolving[r]
         id == call.conflict[1].id
     IN IF local[r][id] = <<>>
        THEN /\ resolving' = [resolving EXCEPT ![r].pc = "failed"]
             /\ UNCHANGED <<ex, local, sent, syncState>>
        ELSE \E ts \in Stamps \cup {now} :
          LET updated == [local[r] EXCEPT ![id] =
                            <<SetFields(local[r][id][1],
                                        [call.chosen[1] EXCEPT !.updatedAt = ts])>>]
              changedDocs == ChangedSince(updated, lastSync[r], 1)
          IN /\ local' = [local EXCEPT ![r] = updated]
             /\ syncState' = [syncState EXCEPT ![r] =
                   [call.state EXCEPT !.conflicts =
                      SelectSeq(call.state.conflicts, LAMBDA c : c.id # id)]]
             /\ IF online
                THEN /\ ex' = [ex EXCEPT ![r] = [Idle EXCEPT !.pc = "loop", !.raw = FALSE,
                                                            !.since = lastSync[r],
                                                            !.batch = changedDocs]]
                     /\ sent' = [sent EXCEPT ![r] = changedDocs]
                     /\ resolving' = [resolving EXCEPT ![r].pc = "syncing"]
                ELSE /\ resolving' = [resolving EXCEPT ![r].pc = "done"]
                     /\ UNCHANGED <<ex, sent>>
  /\ UNCHANGED <<now, serverVars, started, seen, lastSync, prev, retryVars,
                 admitVars, queueVars, deltaVars, monitorVars, appVars, workerVars, conflictResolution,
                 syncAlls, increments>>

\* The syncCollection of resolveConflict has returned, or thrown: so does
\* resolveConflict.
ResolveConflictReturns(r) ==
  /\ resolving[r].pc = "syncing"
  /\ ex[r].pc = "idle"
  /\ resolving' = [resolving EXCEPT ![r].pc = IF ex[r].timestamp > 0 THEN "done" ELSE "failed"]
  /\ UNCHANGED <<now, serverVars, ex, started, clientVars, retryVars,
                 admitVars, queueVars, deltaVars, monitorVars, appVars, workerVars,
                 conflictResolution, syncState, syncAlls, increments>>

\* Calls of syncAll and of incrementPendingChanges followed per replica and run.
MaxBodies == 2
MaxChanges == 1

\* The exchange slot of the syncCollection a replica's syncAll calls; the one of
\* resolveConflict's syncCollection is the replica's own.
Other(r) == CHOOSE b \in Actors : b # r

\* The calls of syncAll of replica r that are past the guard of line 74 and have
\* not yet returned.
Executing(r) ==
  {k \in 1..Len(syncAlls[r]) : syncAlls[r][k] \in {"getDatabase", "syncCollection"}}

\* { ...this.syncStateSubject.value, isSyncing: false, lastSyncTime: Date.now(),
\*   pendingChanges: 0 }
Succeeded(state) ==
  [state EXCEPT !.isSyncing = FALSE, !.lastSyncTime = now, !.pendingChanges = 0]

\* { ...this.syncStateSubject.value, isSyncing: false, error: error.message || ... }
Erred(state) == [state EXCEPT !.isSyncing = FALSE, !.error = TRUE]

\* syncAll() up to its first await: the guard, and isSyncing published.  (When
\* the guard fails the call returns and nothing changes.)
SyncAll(r) ==
  /\ online
  /\ ~syncState[r].isSyncing
  /\ Len(syncAlls[r]) < MaxBodies
  /\ syncState' = [syncState EXCEPT ![r].isSyncing = TRUE]
  /\ syncAlls' = [syncAlls EXCEPT ![r] = Append(@, "getDatabase")]
  /\ UNCHANGED <<now, serverVars, ex, started, clientVars, retryVars,
                 admitVars, queueVars, deltaVars, monitorVars, appVars, workerVars,
                 conflictResolution, resolving, increments>>

\* getDatabase() has answered: the loop calls syncCollection for the one
\* collection of the database, which goes up to its POST.
SyncAllCollection(r, k) ==
  /\ k \in 1..Len(syncAlls[r])
  /\ syncAlls[r][k] = "getDatabase"
  /\ \A j \in 1..Len(syncAlls[r]) : syncAlls[r][j] # "syncCollection"
  /\ Post(Other(r), r)
  /\ syncAlls' = [syncAlls EXCEPT ![r][k] = "syncCollection"]
  /\ UNCHANGED <<now, serverVars, seen, lastSync, local, prev, retryVars,
                 admitVars, queueVars, deltaVars, monitorVars, appVars, workerVars,
                 conflictResolution, syncState, resolving, increments>>

\* getDatabase() rejects: the catch publishes the error and syncAll returns false.
SyncAllThrows(r, k) ==
  /\ k \in 1..Len(syncAlls[r])
  /\ syncAlls[r][k] = "getDatabase"
  /\ syncState' = [syncState EXCEPT ![r] = Erred(@)]
  /\ syncAlls' = [syncAlls EXCEPT ![r][k] = "false"]
  /\ UNCHANGED <<now, serverVars, ex, started, clientVars, retryVars,
                 admitVars, queueVars, deltaVars, monitorVars, appVars, workerVars,
                 conflictResolution, resolving, increments>>

\* syncCollection has returned (the loop is over: syncAll publishes the end of
\* the sync and returns true) or thrown (the catch, and false).
SyncAllReturns(r, k) ==
  /\ k \in 1..Len(syncAlls[r])
  /\ syncAlls[r][k] = "syncCollection"
  /\ ex[Other(r)].pc = "idle"
  /\ IF ex[Other(r)].timestamp > 0
     THEN /\ syncState' = [syncState EXCEPT ![r] = Succeeded(@)]
          /\ syncAlls' = [syncAlls EXCEPT ![r][k] = "true"]
     ELSE /\ syncState' = [syncState EXCEPT ![r] = Erred(@)]
          /\ syncAlls' = [syncAlls EXCEPT ![r][k] = "false"]
  /\ UNCHANGED <<now, serverVars, ex, started, clientVars, retryVars,
                 admitVars, queueVars, deltaVars, monitorVars, appVars, workerVars,
                 conflictResolution, resolving, increments>>

\* { pendingChanges: state.pendingChanges + 1 } without the spread of the state.
IncrementedAlone(state) == [NoSyncState EXCEPT !.pendingChanges = state.pendingChanges + 1]

\* { ...state, pendingChanges: state.pendingChanges + 1 }
Incremented(state) == [state EXCEPT !.pendingChanges = @ + 1]

\* incrementPendingChanges()
IncrementPendingChanges(r) ==
  /\ Len(increments[r]) < MaxChanges
  /\ syncState' = [syncState EXCEPT ![r] = Incremented(@)]
  /\ increments' = [increments EXCEPT ![r] = Append(@, syncState[r].isSyncing)]
  /\ UNCHANGED <<now, serverVars, ex, started, clientVars, retryVars,
                 admitVars, queueVars, deltaVars, monitorVars, appVars, workerVars,
                 conflictResolution, resolving, syncAlls>>

\* The POST answers 500: syncCollection throws before it touches the watermark.
ReceiveError(a) ==
  /\ ~ex[a].raw
  /\ ex[a].pc = "failed"
  /\ ex' = [ex EXCEPT ![a] = [ex[a] EXCEPT !.pc = "idle"]]
  /\ UNCHANGED <<now, serverVars, started, clientVars, retryVars, restVars>>

\* Time passes.
Tick ==
  /\ now < MaxTime
  /\ now' = now + 1
  /\ UNCHANGED <<serverVars, ex, started, clientVars, retryVars, restVars>>

\* ------------------------------------------------- admission middleware
\* The admission middleware an express application can mount in front of the
\* sync handler: rateLimit of createSyncMiddleware, and rateLimit and protect
\* of SecurityMiddleware.  req.ip is the actor.  Date.now() counts half
\* minutes here, so that `now + 60000` is one Minute, two steps of `now`, later.
Minute == 2

DEFAULT_RATE_LIMIT == 60

\* The last instant of the clock of the admission runs, and the rate limit of
\* the runs that go on to processSync.
MaxClock == 4
GateLimit == 2

\* rateLimits[clientId] before the client's first request.
NoLimit == [count |-> 0, resetTime |-> 0]

\* pc: none | chain | handler | sent;  at: the middleware of the chain the
\* request has reached;  status, retryAfter: what res.status(..).json(..) sent.
NoRequest == [pc |-> "none", route |-> "none", at |-> 0, status |-> 0,
              retryAfter |-> Undefined]

\* A client sends its next request once the last one has been answered.
Request(a, route) ==
  /\ http[a].pc \in {"none", "sent"} \/ (http[a].pc = "handler" /\ ~Busy(a))
  /\ ~Busy(a)
  /\ http' = [http EXCEPT ![a] = [NoRequest EXCEPT !.pc = "chain", !.route = route, !.at = 1]]
  /\ UNCHANGED <<now, serverVars, ex, started, clientVars, retryVars, queueVars, deltaVars, syncVars, monitorVars, appVars, workerVars,
                 security, rateLimits, suspiciousIPs, blockList, admits>>

\* The request stands before middleware `name`.
Before(a, name) ==
  /\ http[a].pc = "chain"
  /\ http[a].at <= Len(security.chain)
  /\ security.chain[http[a].at] = name

\* next()
CallNext(r) == [r EXCEPT !.at = r.at + 1]

\* res.status(status).json({ error, retryAfter }): the request ends here.
Send(r, status, retryAfter) ==
  [r EXCEPT !.pc = "sent", !.status = status, !.retryAfter = retryAfter]

\* rateLimitMiddleware without the `return` of its res.status(429): the
\* request goes on to next().
RateLimitMiddlewareFallsThrough(a) ==
  /\ Before(a, "rateLimitMiddleware")
  /\ LET limit == rateLimits[a]
         admit == admits' = [admits EXCEPT ![a][now] = @ + 1]
     IN IF security.rateLimit = 0
        THEN http' = [http EXCEPT ![a] = CallNext(@)] /\ admit
             /\ UNCHANGED rateLimits
        ELSE IF limit = NoLimit \/ now > limit.resetTime
        THEN /\ rateLimits' = [rateLimits EXCEPT ![a] =
                   [count |-> 1, resetTime |-> now + Minute]]
             /\ http' = [http EXCEPT ![a] = CallNext(@)] /\ admit
        ELSE IF limit.count >= security.rateLimit
        THEN /\ http' = [http EXCEPT ![a] = CallNext([@ EXCEPT !.status = 429])]
             /\ UNCHANGED <<rateLimits, admits>>
        ELSE /\ rateLimits' = [rateLimits EXCEPT ![a].count = @ + 1]
             /\ http' = [http EXCEPT ![a] = CallNext(@)] /\ admit
  /\ UNCHANGED <<now, serverVars, ex, started, clientVars, retryVars, queueVars, deltaVars, syncVars, monitorVars, appVars, workerVars,
                 security, suspiciousIPs, blockList>>

\* createSyncMiddleware: rateLimitMiddleware(req, res, next), a counter per
\* client that starts again one minute after the request that opened it.
RateLimitMiddleware(a) ==
  /\ Before(a, "rateLimitMiddleware")
  /\ LET limit == rateLimits[a]
         admit == admits' = [admits EXCEPT ![a][now] = @ + 1]
     IN IF security.rateLimit = 0
        THEN http' = [http EXCEPT ![a] = CallNext(@)] /\ admit
             /\ UNCHANGED rateLimits
        ELSE IF limit = NoLimit \/ now > limit.resetTime
        THEN /\ rateLimits' = [rateLimits EXCEPT ![a] =
                   [count |-> 1, resetTime |-> now + Minute]]
             /\ http' = [http EXCEPT ![a] = CallNext(@)] /\ admit
        ELSE IF limit.count >= security.rateLimit
        THEN /\ http' = [http EXCEPT ![a] = Send(@, 429, Undefined)]
             /\ UNCHANGED <<rateLimits, admits>>
        ELSE /\ rateLimits' = [rateLimits EXCEPT ![a].count = @ + 1]
             /\ http' = [http EXCEPT ![a] = CallNext(@)] /\ admit
  /\ UNCHANGED <<now, serverVars, ex, started, clientVars, retryVars, queueVars, deltaVars, syncVars, monitorVars, appVars, workerVars,
                 security, suspiciousIPs, blockList>>

STRICTER_RATE_LIMIT == 10

\* 3600000 ms and 600000 ms on the clock of the admission runs.
Hour == 60 * Minute
TenMinutes == 10 * Minute

\* bruteForceProtection(endpoint, maxAttempts = 5)
maxAttempts == 5

\* The longest run of attempts, and of slow responses, the runs follow.
MaxTries == 7
MaxSlow == 7

\* responseTimeMs: a quick response and one above five seconds.
ResponseTimes == {100, 6000}
Quick == CHOOSE t \in ResponseTimes : \A u \in ResponseTimes : t <= u
Slow == CHOOSE t \in ResponseTimes : \A u \in ResponseTimes : t >= u

\* new RateLimiter({ tokensPerInterval: limit, interval: "minute" }), with the
\* tokens removed from it in the interval that began at `start`.
RateLimiter(limit) == [tokensPerInterval |-> limit, removed |-> 0, start |-> now]

\* The limiter once the interval that began at `start` is over.
Refilled(l) ==
  IF now - l.start >= Minute THEN [l EXCEPT !.removed = 0, !.start = now] ELSE l

\* What `await limiter.removeTokens(1)` of the limiter package can do: resolve,
\* which takes a token of the interval, or reject with an error that carries
\* msBeforeNext (0: it carries none).  It cannot resolve once the tokens of
\* the interval are gone.
RemoveTokens(l) ==
  {[ok |-> TRUE, msBeforeNext |-> 0, limiter |-> [Refilled(l) EXCEPT !.removed = @ + 1]] :
      x \in IF Refilled(l).removed < l.tokensPerInterval THEN {1} ELSE {}}
  \cup {[ok |-> FALSE, msBeforeNext |-> ms, limiter |-> Refilled(l)] : ms \in {0, 1, 1500}}

\* error.msBeforeNext ? Math.ceil(error.msBeforeNext / 1000) : otherwise
RetryAfter(error, otherwise) ==
  IF error.msBeforeNext # 0 THEN (error.msBeforeNext + 999) \div 1000 ELSE otherwise

\* setTimeout(() => set.delete(ip), delay)
Timer(fn, ip, delay) == [fn |-> fn, ip |-> ip, at |-> now + delay]

\* SecurityMiddleware.addSuspiciousIP(ip): on the list, and off it an hour on.
AddSuspiciousIP(ip) ==
  /\ suspiciousIPs' = suspiciousIPs \cup {ip}
  /\ timers' = timers \cup {Timer("suspiciousIPs.delete", ip, Hour)}

\* SecurityMiddleware.addToBlockList(ip): blocked, and free ten minutes on.
AddToBlockList(ip) ==
  /\ blockList' = blockList \cup {ip}
  /\ timers' = timers \cup {Timer("blockList.delete", ip, TenMinutes)}

\* limit = DEFAULT_RATE_LIMIT, options.rateLimit || DEFAULT_RATE_LIMIT
Limit == IF security.rateLimit = 0 THEN DEFAULT_RATE_LIMIT ELSE security.rateLimit

\* this.ipRateLimiter.get(ip), set first where the address has none.
IpRateLimiter(ip) ==
  IF ipRateLimiter[ip] = <<>> THEN RateLimiter(Limit) ELSE ipRateLimiter[ip][1]

\* The request has been through middleware `name` of its chain.
Through(a, name) ==
  \E k \in 1..Len(security.chain) : k < http[a].at /\ security.chain[k] = name

\* SecurityMiddleware.rateLimit(limit): the stricter limiter and the block
\* list for a suspicious address, the address's own limiter otherwise.
RateLimit(a) ==
  /\ Before(a, "rateLimit")
  /\ IF a \in suspiciousIPs
     THEN /\ \E out \in RemoveTokens(stricterLimiter) :
               /\ stricterLimiter' = out.limiter
               /\ IF out.ok
                  THEN /\ http' = [http EXCEPT ![a] = CallNext(@)]
                       /\ UNCHANGED <<blockList, timers>>
                  ELSE /\ AddToBlockList(a)
                       /\ http' = [http EXCEPT ![a] = Send(@, 429, RetryAfter(out, 60))]
          /\ UNCHANGED ipRateLimiter
     ELSE /\ \E out \in RemoveTokens(IpRateLimiter(a)) :
               /\ ipRateLimiter' = [ipRateLimiter EXCEPT ![a] = <<out.limiter>>]
               /\ http' = [http EXCEPT ![a] =
                             IF out.ok THEN CallNext(@) ELSE Send(@, 429, RetryAfter(out, 30))]
          /\ UNCHANGED <<stricterLimiter, blockList, timers>>
  /\ UNCHANGED <<now, serverVars, ex, started, clientVars, retryVars, queueVars, deltaVars,
                 syncVars, appVars, workerVars, security, rateLimits, suspiciousIPs, admits,
                 bruteForceAttempts, anomalyThresholds, responseTimesHistory, strictAdmits, spacing>>

\* SecurityMiddleware.protect(options) with options = { rateLimit }: 403 for a
\* blocked address, 429 and a suspicion when the address's limiter rejects.
Protect(a) ==
  /\ Before(a, "protect")
  /\ IF a \in blockList
     THEN /\ http' = [http EXCEPT ![a] = Send(@, 403, 300)]
          /\ UNCHANGED <<suspiciousIPs, ipRateLimiter, timers>>
     ELSE \E out \in RemoveTokens(IpRateLimiter(a)) :
            /\ ipRateLimiter' = [ipRateLimiter EXCEPT ![a] = <<out.limiter>>]
            /\ IF out.ok
               THEN /\ http' = [http EXCEPT ![a] = CallNext(@)]
                    /\ UNCHANGED <<suspiciousIPs, timers>>
               ELSE /\ AddSuspiciousIP(a)
                    /\ http' = [http EXCEPT ![a] = Send(@, 429, RetryAfter(out, Undefined))]
  /\ UNCHANGED <<now, serverVars, ex, started, clientVars, retryVars, queueVars, deltaVars,
                 syncVars, appVars, workerVars, security, rateLimits, blockList, admits,
                 stricterLimiter, bruteForceAttempts, anomalyThresholds, responseTimesHistory,
                 strictAdmits, spacing>>

\* SecurityMiddleware.bruteForceProtection(endpoint, maxAttempts): one more
\* attempt of the address; beyond maxAttempts it is put on the list of
\* suspects and answered with 403 (two seconds on, the same instant here).
BruteForceProtection(a) ==
  /\ Before(a, "bruteForceProtection")
  /\ bruteForceAttempts[a] < MaxTries
  /\ bruteForceAttempts' = [bruteForceAttempts EXCEPT ![a] = @ + 1]
  /\ IF bruteForceAttempts[a] + 1 > maxAttempts
     THEN /\ suspiciousIPs' = suspiciousIPs \cup {a}
          /\ http' = [http EXCEPT ![a] = Send(@, 403, 300)]
     ELSE /\ http' = [http EXCEPT ![a] = CallNext(@)]
          /\ UNCHANGED suspiciousIPs
  /\ UNCHANGED <<now, serverVars, ex, started, clientVars, retryVars, queueVars, deltaVars,
                 syncVars, appVars, workerVars, security, rateLimits, blockList, admits,
                 ipRateLimiter, stricterLimiter, timers, anomalyThresholds,
                 responseTimesHistory, strictAdmits, spacing>>

\* SecurityMiddleware.injectionProtection(): a suspicion and 403 for a request
\* whose body, query or params match one of the patterns.
InjectionProtection(a) ==
  /\ Before(a, "injectionProtection")
  /\ \E checkForInjection \in BOOLEAN :
       IF checkForInjection
       THEN /\ AddSuspiciousIP(a)
            /\ http' = [http EXCEPT ![a] = Send(@, 403, Undefined)]
       ELSE /\ http' = [http EXCEPT ![a] = CallNext(@)]
            /\ UNCHANGED <<suspiciousIPs, timers>>
  /\ UNCHANGED <<now, serverVars, ex, started, clientVars, retryVars, queueVars, deltaVars,
                 syncVars, appVars, workerVars, security, rateLimits, blockList, admits,
                 ipRateLimiter, stricterLimiter, bruteForceAttempts, anomalyThresholds,
                 responseTimesHistory, strictAdmits, spacing>>

\* The timers of addSuspiciousIP (one hour) and addToBlockList (ten minutes)
\* run their callbacks when they are due.
ForgetSuspicious(a) ==
  /\ \E t \in timers :
       /\ t.fn = "suspiciousIPs.delete" /\ t.ip = a /\ t.at <= now
       /\ timers' = timers \ {t}
  /\ suspiciousIPs' = suspiciousIPs \ {a}
  /\ UNCHANGED <<now, serverVars, ex, started, clientVars, retryVars, queueVars, deltaVars,
                 syncVars, appVars, workerVars, security, rateLimits, blockList, http, admits,
                 ipRateLimiter, stricterLimiter, bruteForceAttempts, anomalyThresholds,
                 responseTimesHistory, strictAdmits, spacing>>

Unblock(a) ==
  /\ \E t \in timers :
       /\ t.fn = "blockList.delete" /\ t.ip = a /\ t.at <= now
       /\ timers' = timers \ {t}
  /\ blockList' = blockList \ {a}
  /\ UNCHANGED <<now, serverVars, ex, started, clientVars, retryVars, queueVars, deltaVars,
                 syncVars, appVars, workerVars, security, rateLimits, suspiciousIPs, http, admits,
                 ipRateLimiter, stricterLimiter, bruteForceAttempts, anomalyThresholds,
                 responseTimesHistory, strictAdmits, spacing>>

\* The request has passed every middleware of the chain.
Passed(a) == http[a].pc = "chain" /\ http[a].at > Len(security.chain)

\* syncMiddleware(req, res): the handler behind the chain calls processSync.
SyncMiddleware(a) ==
  /\ Passed(a)
  /\ http[a].route = "sync"
  /\ ProcessSync(a)
  /\ http' = [http EXCEPT ![a].pc = "handler"]
  /\ UNCHANGED <<now, serverVars, clientVars, retryVars, queueVars, deltaVars, syncVars, monitorVars, appVars, workerVars,
                 security, rateLimits, suspiciousIPs, blockList, admits>>

\* SecurityMiddleware.detectTimingAnomaly(ip, responseTimeMs): the entry of
\* the address after the call.
Threshold(ip, responseTimeMs) ==
  IF anomalyThresholds[ip] = <<>> THEN [count |-> 1, lastTime |-> now]
  ELSE LET threshold == anomalyThresholds[ip][1]
       IN IF now - threshold.lastTime > Hour THEN [count |-> 1, lastTime |-> now]
          ELSE IF responseTimeMs > 5000
          THEN [count |-> threshold.count + 1, lastTime |-> now]
          ELSE [threshold EXCEPT !.lastTime = now]

\* The call finds more than five slow responses of the address.
TooSlow(ip, responseTimeMs) ==
  /\ anomalyThresholds[ip] # <<>>
  /\ now - anomalyThresholds[ip][1].lastTime <= Hour
  /\ responseTimeMs > 5000
  /\ anomalyThresholds[ip][1].count + 1 > 5

\* ---- the SecurityMiddleware createSyncRouter instantiates (rate-limiter-flexible)
STRICTER_POINTS == 30
IP_POINTS == 120

\* The response times the runs keep of one address (times.shift() drops the
\* oldest beyond a hundred).
MaxSamples == 44

\* RateLimiterMemory.consume(key) for a key that has consumed `consumed`
\* points of the current duration: it rejects beyond `points`.  (The block
\* of blockDuration that follows a rejection lies beyond the runs.)
Consume(consumed, points) == consumed + 1 <= points

\* responseTimesHistory[ip] before the first response: no intervals, ever.
NoHistory == [quick |-> 0, slow |-> 0, requestCount |-> 0, lastRequestTime |-> 0]

\* [...responseTimes].sort((a, b) => a - b)[k], k from 0, of `quick` quick
\* responses and `slow` slow ones.
SortedAt(times, k) == IF k < times.quick THEN Quick ELSE Slow

\* detectStatisticalAnomaly(responseTimes): more than a fifth of the times lie
\* more than 1.5 IQR outside the quartiles (compared at twice their value).
DetectStatisticalAnomaly(times) ==
  LET length == times.quick + times.slow
      q1 == SortedAt(times, length \div 4)
      q3 == SortedAt(times, (3 * length) \div 4)
      iqr == q3 - q1
      lowerBound2 == 2 * q1 - 3 * iqr
      upperBound2 == 2 * q3 + 3 * iqr
      Outlier(t) == 2 * t < lowerBound2 \/ 2 * t > upperBound2
      outliers == (IF Outlier(Quick) THEN times.quick ELSE 0)
                  + (IF Outlier(Slow) THEN times.slow ELSE 0)
  IN 5 * outliers > length

\* detectPreciseIntervals(ip): history.intervals is never assigned.
DetectPreciseIntervals(h) == FALSE

\* `history.intervals.length < 5`: the intervals the rule asks for.
MinIntervals == 5

\* No interval measured yet.  interval: timeSinceLastRequest of the last call
\* of detectTimingAnomaly that had a call before it; run: how many of the
\* latest intervals, up to MinIntervals, equal it.
NoSpacing == [interval |-> 0, run |-> 0]

\* const timeSinceLastRequest = now - history.lastRequestTime: the value is
\* computed at every call and stored nowhere; the runs keep this summary of it.
Spaced(sp, before) ==
  IF before = <<>> THEN NoSpacing
  ELSE LET timeSinceLastRequest == now - before[1].lastRequestTime
       IN [interval |-> timeSinceLastRequest,
           run |-> IF sp.run > 0 /\ sp.interval = timeSinceLastRequest
                   THEN (IF sp.run < MinIntervals THEN sp.run + 1 ELSE sp.run)
                   ELSE 1]

\* detectTimingAnomaly(ip, responseTimeMs): the history after the call.
Recorded1(ip, responseTimeMs) ==
  LET h == IF responseTimesHistory[ip] = <<>> THEN NoHistory
           ELSE responseTimesHistory[ip][1]
  IN [quick |-> h.quick + (IF responseTimeMs = Quick THEN 1 ELSE 0),
      slow |-> h.slow + (IF responseTimeMs = Slow THEN 1 ELSE 0),
      requestCount |-> h.requestCount + 1,
      lastRequestTime |-> now]

\* detectTimingAnomaly(ip, responseTimeMs): the call suspects the address.
Anomalous(h) ==
  \/ h.requestCount > 20 /\ DetectPreciseIntervals(h)
  \/ h.quick + h.slow >= 10 /\ DetectStatisticalAnomaly(h)

\* createSyncRouter: router.use(securityMiddleware.rateLimitMiddleware), for a
\* request without req.user: a limiter made for the request when the address
\* is suspected, the limiter of the addresses otherwise.
SecurityRateLimitMiddleware(a) ==
  /\ Before(a, "securityMiddleware.rateLimitMiddleware")
  /\ IF a \in suspiciousIPs
     THEN /\ IF Consume(0, STRICTER_POINTS)
             THEN /\ http' = [http EXCEPT ![a] = CallNext(@)]
                  /\ strictAdmits' = [strictAdmits EXCEPT ![a][now] = @ + 1]
             ELSE /\ http' = [http EXCEPT ![a] = Send(@, 429, 30)]
                  /\ UNCHANGED strictAdmits
          /\ UNCHANGED ipRateLimiter
     ELSE LET limiter == Refilled(IF ipRateLimiter[a] = <<>> THEN RateLimiter(IP_POINTS)
                                  ELSE ipRateLimiter[a][1])
          IN /\ IF Consume(limiter.removed, IP_POINTS)
                THEN /\ http' = [http EXCEPT ![a] = CallNext(@)]
                     /\ ipRateLimiter' = [ipRateLimiter EXCEPT ![a] =
                                            <<[limiter EXCEPT !.removed = @ + 1]>>]
                ELSE /\ http' = [http EXCEPT ![a] = Send(@, 429, 300)]
                     /\ ipRateLimiter' = [ipRateLimiter EXCEPT ![a] = <<limiter>>]
             /\ UNCHANGED strictAdmits
  /\ UNCHANGED <<now, serverVars, ex, started, clientVars, retryVars, queueVars, deltaVars,
                 syncVars, appVars, workerVars, security, rateLimits, suspiciousIPs, blockList, admits,
                 stricterLimiter, timers, bruteForceAttempts, anomalyThresholds,
                 responseTimesHistory, spacing>>

\* res.end(..) of a response with `status`: the wrapper the rate limiter put
\* around it measures the response, and the listener of bruteForceProtection
\* forgets the attempts of an address that is answered with 200.
ResEnd(a, status) ==
  /\ IF Through(a, "rateLimit")
     THEN /\ \E responseTimeMs \in ResponseTimes :
               /\ Threshold(a, responseTimeMs).count <= MaxSlow
               /\ anomalyThresholds' = [anomalyThresholds EXCEPT ![a] = <<Threshold(a, responseTimeMs)>>]
               /\ IF TooSlow(a, responseTimeMs)
                  THEN AddSuspiciousIP(a)
                  ELSE UNCHANGED <<suspiciousIPs, timers>>
          /\ UNCHANGED <<responseTimesHistory, spacing>>
     ELSE IF Through(a, "securityMiddleware.rateLimitMiddleware")
     THEN /\ \E responseTimeMs \in ResponseTimes :
               LET h == Recorded1(a, responseTimeMs)
               IN /\ h.quick + h.slow <= MaxSamples
                  /\ responseTimesHistory' = [responseTimesHistory EXCEPT ![a] = <<h>>]
                  /\ suspiciousIPs' = IF Anomalous(h) THEN suspiciousIPs \cup {a}
                                      ELSE suspiciousIPs
          /\ spacing' = [spacing EXCEPT ![a] = Spaced(@, responseTimesHistory[a])]
          /\ UNCHANGED <<anomalyThresholds, timers>>
     ELSE UNCHANGED <<anomalyThresholds, suspiciousIPs, timers, responseTimesHistory, spacing>>
  /\ bruteForceAttempts' = IF Through(a, "bruteForceProtection") /\ status = 200
                           THEN [bruteForceAttempts EXCEPT ![a] = 0] ELSE bruteForceAttempts

\* GET /sync/status: answers without touching a document.
Status(a) ==
  /\ Passed(a)
  /\ http[a].route = "status"
  /\ http' = [http EXCEPT ![a] = Send(@, 200, Undefined)]
  /\ ResEnd(a, 200)
  /\ UNCHANGED <<now, serverVars, ex, started, clientVars, retryVars, queueVars, deltaVars,
                 syncVars, appVars, workerVars, security, rateLimits, blockList, admits,
                 ipRateLimiter, stricterLimiter, strictAdmits>>

\* res.json(result) / res.status(500) of the sync handler: the response ends.
Answer(a) ==
  /\ http[a].pc = "handler"
  /\ ex[a].pc \in {"responded", "failed", "returned"}
  /\ ex' = [ex EXCEPT ![a] = Idle]
  /\ LET status == IF ex[a].pc = "failed" THEN 500 ELSE 200
     IN /\ http' = [http EXCEPT ![a] = [@ EXCEPT !.pc = "sent", !.status = status]]
        /\ ResEnd(a, status)
  /\ UNCHANGED <<now, serverVars, started, clientVars, retryVars, queueVars, deltaVars,
                 syncVars, appVars, workerVars, security, rateLimits, blockList, admits,
                 ipRateLimiter, stricterLimiter, strictAdmits>>

\* Every timer that is due has run.
NoneDue == \A t \in timers : t.at > now

\* Half a minute passes on the clock of the admission runs.
Elapse ==
  /\ now < MaxClock
  /\ NoneDue
  /\ now' = now + 1
  /\ UNCHANGED <<serverVars, ex, started, clientVars, retryVars, restVars>>

\* No request arrives before the next timer is due.
Sleep ==
  /\ now <= MaxClock
  /\ timers # {}
  /\ NoneDue
  /\ \E t \in timers :
       /\ \A u \in timers : t.at <= u.at
       /\ now' = t.at
  /\ UNCHANGED <<serverVars, ex, started, clientVars, retryVars, restVars>>

\* ------------------------------------ DatabaseService: the sync queue
\* Date.now() counts seconds in the runs of the application: the 2000 ms of
\* queueSync are two steps of the clock.
ThrottleWindow == 2

Collections == {"tasks", "notes"}

\* The longest queue the runs follow.
MaxQueued == 3

\* [...new Set(this.syncQueue.map(item => item.collection))]
RECURSIVE Distinct(_)
Distinct(q) ==
  IF q = <<>> THEN <<>>
  ELSE <<Head(q)>> \o Distinct(SelectSeq(Tail(q), LAMBDA c : c # Head(q)))

\* The instant of the last local write not yet taken up.
LastWrite == CHOOSE t \in {w.at : w \in writes} : \A w \in writes : w.at <= t

\* this.syncCollection(collection), called by the run of processSyncQueue
\* that the timeout of instant `burst` started.
Call(collection, burst, last) ==
  [collection |-> collection, at |-> now, burst |-> burst, last |-> last]

\* DatabaseService.queueSync(collection, action, id), called by a local write:
\* the write is queued, and the timeout is set unless one is pending or the
\* device is offline.
QueueSync(collection) ==
  /\ Len(syncQueue) < MaxQueued
  /\ syncQueue' = Append(syncQueue, collection)
  /\ writes' = writes \cup {[collection |-> collection, at |-> now]}
  /\ IF ~syncThrottleTimeout /\ online
     THEN /\ syncThrottleTimeout' = TRUE
          /\ timers' = timers \cup {Timer("processSyncQueue", "DatabaseService", ThrottleWindow)}
     ELSE UNCHANGED <<syncThrottleTimeout, timers>>
  /\ UNCHANGED <<now, serverVars, ex, started, clientVars, retryVars, admitVars, queueVars,
                 deltaVars, workerVars, syncVars, runs, syncs,
                 ipRateLimiter, stricterLimiter, bruteForceAttempts, anomalyThresholds,
                 responseTimesHistory, strictAdmits, spacing>>

\* The callback of the timeout: processSyncQueue() up to its first await, then
\* syncThrottleTimeout = null.
ProcessSyncQueue ==
  /\ \E t \in timers :
       /\ t.fn = "processSyncQueue" /\ t.at <= now
       /\ timers' = timers \ {t}
  /\ syncThrottleTimeout' = FALSE
  /\ IF syncQueue = <<>>
     THEN UNCHANGED <<syncQueue, runs, writes, syncs>>
     ELSE LET collections == Distinct(syncQueue)
          IN /\ syncQueue' = <<>>
             /\ writes' = {}
             /\ runs' = Append(runs, [rest |-> collections, burst |-> now, last |-> LastWrite])
             /\ syncs' = Append(syncs, Call(Head(collections), now, LastWrite))
  /\ UNCHANGED <<now, serverVars, ex, started, clientVars, retryVars, admitVars, queueVars,
                 deltaVars, workerVars, syncVars,
                 ipRateLimiter, stricterLimiter, bruteForceAttempts, anomalyThresholds,
                 responseTimesHistory, strictAdmits, spacing>>

\* await this.syncCollection(collection) of run k returns: the loop of
\* processSyncQueue goes on to the next collection, or ends.
SyncCollectionReturns(k) ==
  /\ k \in 1..Len(runs)
  /\ LET run == runs[k]
     IN IF Len(run.rest) > 1
        THEN /\ runs' = [runs EXCEPT ![k].rest = Tail(@)]
             /\ syncs' = Append(syncs, Call(run.rest[2], run.burst, run.last))
        ELSE /\ runs' = SubSeq(runs, 1, k - 1) \o SubSeq(runs, k + 1, Len(runs))
             /\ UNCHANGED syncs
  /\ UNCHANGED <<now, serverVars, ex, started, clientVars, retryVars, admitVars, queueVars,
                 deltaVars, workerVars, syncVars, monitorVars, syncQueue, syncThrottleTimeout, writes>>

\* ------------------------------------------- SyncRetryService: the queue
\* if (attempt.retries > 10), sorted.slice(0, 5)
MaxRetries == 10
BatchSize == 5

\* The failed re-deliveries of one attempt the queue runs count.
MaxFailures == 12

\* The attempts an earlier run of the application has persisted, at most.
MaxStored == 6

\* The ids of attempts: 0 and below for those persisted by an earlier run of the
\* application, 1.. for those registered in this one.
AttemptIds == (1 - MaxStored)..MaxPending

IdsOf(attempts) == {attempts[k].id : k \in 1..Len(attempts)}

\* this.pendingAttempts.filter(a => a.id !== id)
Without(attempts, id) == SelectSeq(attempts, LAMBDA a : a.id # id)

\* pendingSubject.next(length): the emission carries the length, and no failure.
Emission(length) == [count |-> length, failed |-> {}]

\* No pass of processRetries under way.  batch: the ids of sorted.slice(0, 5);
\* k: the attempt the loop is at; dropped: the attempts this pass gave up.
NoPass == [pc |-> "idle", batch |-> <<>>, k |-> 0, dropped |-> {}]

\* The sort of processRetries orders by (a.timestamp - b.timestamp) -
\* (a.retries * 10000 - b.retries * 10000): ascending in this key.
SortKey(a) == a.timestamp - a.retries * 10000

\* [...pendingAttempts].sort(...): a stable sort by SortKey.
RECURSIVE Sorted(_)
Sorted(attempts) ==
  IF attempts = <<>> THEN <<>>
  ELSE LET least == CHOOSE k \in 1..Len(attempts) :
                      \A j \in 1..Len(attempts) :
                         \/ SortKey(attempts[k]) < SortKey(attempts[j])
                         \/ SortKey(attempts[k]) = SortKey(attempts[j]) /\ k <= j
       IN <<attempts[least]>>
          \o Sorted(SubSeq(attempts, 1, least - 1) \o SubSeq(attempts, least + 1, Len(attempts)))

\* loadPendingAttempts after its await: if (attempts) this.pendingAttempts = attempts.
LoadPendingAttempts ==
  /\ loading.pc = "get"
  /\ loading' = [loading EXCEPT !.pc = "done"]
  /\ IF loading.value # <<>>
     THEN /\ pendingAttempts' = loading.value[1]
          /\ pendingSubject' = Emission(Len(loading.value[1]))
     ELSE UNCHANGED <<pendingAttempts, pendingSubject>>
  /\ UNCHANGED <<now, serverVars, ex, started, clientVars, admitVars, deltaVars, syncVars, monitorVars, appVars, workerVars,
                 storage, retryTimerId, pass, online, nextId, history>>

\* The interval of scheduleRetries fires: processRetries up to its loop.  The
\* load of the constructor and the pass before have ended by then.
ProcessRetries ==
  /\ retryTimerId
  /\ loading.pc = "done"
  /\ pass.pc = "idle"
  /\ online /\ pendingAttempts # <<>>
  /\ LET sorted == Sorted(pendingAttempts)
         batch == SubSeq(sorted, 1, IF Len(sorted) < BatchSize THEN Len(sorted) ELSE BatchSize)
     IN pass' = [pc |-> "loop", batch |-> [k \in 1..Len(batch) |-> batch[k].id],
                 k |-> 1, dropped |-> {}]
  /\ UNCHANGED <<now, serverVars, ex, started, clientVars, admitVars, deltaVars, syncVars, monitorVars, appVars, workerVars,
                 retryVars, loading, online, nextId, pendingSubject, history>>

\* await this.retrySyncOperation(attempt) resolves: the attempt leaves the queue.
RetrySucceeds ==
  /\ pass.pc = "loop"
  /\ pass.k <= Len(pass.batch)
  /\ LET id == pass.batch[pass.k]
     IN /\ pendingAttempts' = Without(pendingAttempts, id)
        /\ history' = [history EXCEPT ![id].fate = "delivered"]
  /\ pass' = [pass EXCEPT !.k = pass.k + 1]
  /\ UNCHANGED <<now, serverVars, ex, started, clientVars, admitVars, deltaVars, syncVars, monitorVars, appVars, workerVars,
                 storage, retryTimerId, loading, online, nextId, pendingSubject>>

\* attempt.retries += 2 in place of attempt.retries++.
CountedTwice(attempts, id) ==
  [k \in 1..Len(attempts) |->
     IF attempts[k].id = id
     THEN [attempts[k] EXCEPT !.retries = @ + 2, !.lastError = "rejected"]
     ELSE attempts[k]]

\* attempt.retries++; attempt.lastError = error?.message || String(error): the
\* attempt is an element of this.pendingAttempts, which sees the change.
Counted(attempts, id) ==
  [k \in 1..Len(attempts) |->
     IF attempts[k].id = id
     THEN [attempts[k] EXCEPT !.retries = @ + 1, !.lastError = "rejected"]
     ELSE attempts[k]]

\* await this.retrySyncOperation(attempt) rejects: attempt.retries++, lastError
\* takes the message of the rejection, and the attempt leaves the queue once
\* attempt.retries > 10.
RetryFails ==
  /\ pass.pc = "loop"
  /\ pass.k <= Len(pass.batch)
  /\ LET id == pass.batch[pass.k]
         counted == Counted(pendingAttempts, id)
         over == \E k \in 1..Len(counted) :
                    counted[k].id = id /\ counted[k].retries > MaxRetries
     IN /\ history[id].failures < MaxFailures
        /\ pendingAttempts' = IF over THEN Without(counted, id) ELSE counted
        /\ pass' = [pass EXCEPT !.k = pass.k + 1,
                                !.dropped = IF over THEN @ \cup {id} ELSE @]
        /\ history' = [history EXCEPT ![id].failures = @ + 1,
                                      ![id].fate = IF over THEN "dropped" ELSE @]
  /\ UNCHANGED <<now, serverVars, ex, started, clientVars, admitVars, deltaVars, syncVars, monitorVars, appVars, workerVars,
                 storage, retryTimerId, loading, online, nextId, pendingSubject>>

\* processRetries after its loop: savePendingAttempts, and clearInterval when
\* the queue is empty.
EndPass ==
  /\ pass.pc = "loop"
  /\ pass.k > Len(pass.batch)
  /\ storage' = <<pendingAttempts>>
  /\ pendingSubject' = Emission(Len(pendingAttempts))
  /\ retryTimerId' = (retryTimerId /\ pendingAttempts # <<>>)
  /\ pass' = NoPass
  /\ UNCHANGED <<now, serverVars, ex, started, clientVars, admitVars, deltaVars, syncVars, monitorVars, appVars, workerVars,
                 pendingAttempts, loading, online, nextId, history>>

\* The device goes offline or comes back.
Connectivity ==
  /\ online' = ~online
  /\ UNCHANGED <<now, serverVars, ex, started, clientVars, admitVars, deltaVars, syncVars, monitorVars, appVars, workerVars,
                 retryVars, loading, pass, nextId, pendingSubject, history>>

\* The application is closed and opened again: a new SyncRetryService over
\* what is stored.
Restart ==
  /\ pendingAttempts' = <<>>
  /\ retryTimerId' = FALSE
  /\ loading' = [pc |-> "get", value |-> storage]
  /\ pass' = NoPass
  /\ pendingSubject' = Emission(0)
  /\ UNCHANGED <<now, serverVars, ex, started, clientVars, admitVars, deltaVars, syncVars, monitorVars, appVars, workerVars,
                 storage, online, nextId, history>>

\* ------------------------------------------------------- DeltaSyncService
\* The versions of one document that the delta service is given: a short
\* field, a long one and a revision.
DeltaFields == <<"title", "body", "_rev">>

Bodies == {"", "0123456789012345678901234567890123456789"}

DeltaDocs ==
  {[f \in Range(DeltaFields) |->
      CASE f = "title" -> t [] f = "body" -> b [] f = "_rev" -> r] :
     t \in Vals, b \in Bodies, r \in 1..MaxTs}

\* The length of JSON.stringify of a field's value: a quoted string, or a
\* revision of one digit.
ValueSize(f, v) == IF f = "_rev" THEN 1 ELSE Len(v) + 2

\* JSON.stringify(currentDoc).length
RECURSIVE MembersSize(_, _)
MembersSize(d, k) ==
  IF k > Len(DeltaFields) THEN 0
  ELSE LET f == DeltaFields[k]
       IN Len(f) + 3 + ValueSize(f, d[f]) + (IF k > 1 THEN 1 ELSE 0) + MembersSize(d, k + 1)

DocSize(d) == 2 + MembersSize(d, 1)

\* diffPatcher.diff(lastVersion, currentDoc) of jsondiffpatch: { field: [old,
\* new] } for the fields that differ, and undefined, here the function with no
\* field, when none does.
Diff(left, right) ==
  [f \in {g \in Range(DeltaFields) : left[g] # right[g]} |-> <<left[f], right[f]>>]

\* JSON.stringify(delta).length for a delta that is not undefined.
RECURSIVE ChangesSize(_, _, _)
ChangesSize(delta, k, first) ==
  IF k > Len(DeltaFields) THEN 0
  ELSE LET f == DeltaFields[k]
       IN IF f \in DOMAIN delta
          THEN Len(f) + 3 + (3 + ValueSize(f, delta[f][1]) + ValueSize(f, delta[f][2]))
               + (IF first THEN 0 ELSE 1) + ChangesSize(delta, k + 1, FALSE)
          ELSE ChangesSize(delta, k + 1, first)

DeltaSize(delta) == 2 + ChangesSize(delta, 1, TRUE)

\* deltaSize > docSize * 0.6
OverThreshold(deltaSize, docSize) == 5 * deltaSize > 3 * docSize

\* diffPatcher.patch(document, delta): the new value for every field of the delta.
Patch(document, delta) ==
  [f \in DOMAIN document |-> IF f \in DOMAIN delta THEN delta[f][2] ELSE document[f]]

\* What generateDelta returns for lastVersion (<<>>: none) and currentDoc.
\* JSON.stringify(undefined) is undefined, and reading its length throws.
Generated(lastVersion, currentDoc) ==
  IF lastVersion = <<>> THEN [kind |-> "full", fullDocument |-> currentDoc]
  ELSE LET delta == Diff(lastVersion[1], currentDoc)
       IN IF DOMAIN delta = {} THEN [kind |-> "TypeError"]
          ELSE IF OverThreshold(DeltaSize(delta), DocSize(currentDoc))
          THEN [kind |-> "full", fullDocument |-> currentDoc]
          ELSE [kind |-> "delta", delta |-> delta, baseVersion |-> lastVersion[1]["_rev"]]

\* Nothing computed yet.
NoUnit == [set |-> FALSE]

\* saveLastSyncedVersion(collectionName, docId, doc)
SaveLastSyncedVersion(doc) ==
  /\ lastSyncedVersions' = <<doc>>
  /\ UNCHANGED <<now, serverVars, ex, started, clientVars, retryVars, admitVars,
                 queueVars, syncVars, monitorVars, appVars, workerVars, unit, patched, applied>>

\* generateDelta(collectionName, docId, currentDoc)
GenerateDelta(currentDoc) ==
  /\ unit' = [set |-> TRUE, lastVersion |-> lastSyncedVersions, currentDoc |-> currentDoc,
              out |-> Generated(lastSyncedVersions, currentDoc)]
  /\ patched' = <<>>
  /\ UNCHANGED <<now, serverVars, ex, started, clientVars, retryVars, admitVars,
                 queueVars, syncVars, monitorVars, appVars, workerVars, lastSyncedVersions, applied>>

\* applyDelta(document, delta) with the delta of the unit computed last, on a
\* copy of the version it was computed against.
ApplyDelta ==
  /\ unit.set
  /\ unit.out.kind = "delta"
  /\ patched' = <<Patch(unit.lastVersion[1], unit.out.delta)>>
  /\ UNCHANGED <<now, serverVars, ex, started, clientVars, retryVars, admitVars,
                 queueVars, syncVars, monitorVars, appVars, workerVars, lastSyncedVersions, unit, applied>>

\* applyDelta(document, delta) on the receiving side, with the delta of the
\* unit computed last and whatever version of the document the receiver holds:
\* diffPatcher.patch writes the new value of every field of the delta.
ApplyDeltaOn(document) ==
  /\ unit.set
  /\ unit.out.kind = "delta"
  /\ applied' = [set |-> TRUE, document |-> document,
                 baseVersion |-> unit.out.baseVersion,
                 out |-> [kind |-> "patched", document |-> Patch(document, unit.out.delta)]]
  /\ UNCHANGED <<now, serverVars, ex, started, clientVars, retryVars, admitVars,
                 queueVars, syncVars, monitorVars, appVars, workerVars, lastSyncedVersions, unit, patched>>

\* ------------------------------------------------------------ construction
Config(variant, ownership, validator, handler) ==
  [variant |-> variant, ownership |-> ownership, validator |-> validator,
   handler |-> handler]

Plain == Config("processSync", FALSE, "none", "none")

Configs ==
  {Plain,
   Config("processSync", TRUE, "none", "none"),
   Config("processSync", FALSE, "rejectB", "none"),
   Config("processSync", FALSE, "none", "decline"),
   Config("processSync", FALSE, "none", "client"),
   Config("processChanges", TRUE, "none", "none"),
   Config("processChanges", TRUE, "rejectB", "client")}

\* The server and the replicas after construction.
InitSync(cfgs) ==
  /\ now = 1
  /\ config \in cfgs
  /\ store = <<>>
  /\ ex = [a \in Actors |-> Idle]
  /\ started = 0
  /\ seen = [a \in Actors |-> {}]
  /\ lastSync = [a \in Actors |-> 0]
  /\ local = [a \in Actors |-> [i \in Ids |-> <<>>]]
  /\ sent = [a \in Actors |-> <<>>]
  /\ prev = [a \in Actors |-> NoPrev]

\* new SyncRetryService(storage): the fields, and the storage.get that
\* loadPendingAttempts starts.  storage is <<>> when the key is absent and
\* <<attempts>> when attempts are stored under it.
Construct(stored) ==
  /\ pendingAttempts = <<>>
  /\ storage = stored
  /\ retryTimerId = FALSE
  /\ loading = [pc |-> "get", value |-> stored]
  /\ pass = NoPass
  /\ online = TRUE
  /\ nextId = 1
  /\ pendingSubject = Emission(0)
  /\ history = [id \in AttemptIds |->
        [failures |-> 0,
         fate |-> IF stored # <<>> /\ id \in IdsOf(stored[1]) THEN "queued" ELSE "none"]]

\* SyncRetryService on a device that has nothing persisted, its load finished.
InitRetry ==
  /\ pendingAttempts = <<>>
  /\ storage = <<>>
  /\ retryTimerId = FALSE
  /\ loading = [pc |-> "done", value |-> <<>>]
  /\ pass = NoPass
  /\ online = TRUE
  /\ nextId = 1
  /\ pendingSubject = Emission(0)
  /\ history = [id \in AttemptIds |-> [failures |-> 0, fate |-> "none"]]

\* No request yet; the application mounts the admission middleware of `chain`,
\* in that order, and configures security.rateLimit (0: not configured).
InitAdmit(chains, limits) ==
  /\ security \in [chain : chains, rateLimit : limits]
  /\ rateLimits = [a \in Actors |-> NoLimit]
  /\ suspiciousIPs = {}
  /\ blockList = {}
  /\ http = [a \in Actors |-> NoRequest]
  /\ admits = [a \in Actors |-> [t \in 1..MaxClock |-> 0]]

\* new DeltaSyncService(): no version synced, nothing computed yet.
InitDelta ==
  /\ lastSyncedVersions = <<>>
  /\ unit = NoUnit
  /\ patched = <<>>
  /\ applied = NoUnit

\* new OfflineSyncService(http, store, config) on every replica, with the
\* strategy the application configures.
InitState(strategies) ==
  /\ conflictResolution \in strategies
  /\ syncState = [a \in Actors |-> NoSyncState]
  /\ resolving = [a \in Actors |-> NoCall]
  /\ syncAlls = [a \in Actors |-> <<>>]
  /\ increments = [a \in Actors |-> <<>>]

\* new SecurityMiddleware(): no limiter of an address, nobody suspected or
\* blocked, no timer pending.
InitMonitor ==
  /\ ipRateLimiter = [a \in Actors |-> <<>>]
  /\ stricterLimiter = [tokensPerInterval |-> STRICTER_RATE_LIMIT, removed |-> 0, start |-> 1]
  /\ timers = {}
  /\ bruteForceAttempts = [a \in Actors |-> 0]
  /\ anomalyThresholds = [a \in Actors |-> <<>>]
  /\ responseTimesHistory = [a \in Actors |-> <<>>]
  /\ strictAdmits = [a \in Actors |-> [t \in 1..MaxClock |-> 0]]
  /\ spacing = [a \in Actors |-> NoSpacing]

\* DatabaseService: nothing queued, no timeout set.
InitApp ==
  /\ syncQueue = <<>>
  /\ syncThrottleTimeout = FALSE
  /\ runs = <<>>
  /\ writes = {}
  /\ syncs = <<>>

\* ------------------------------------------------- EncryptionService
\* this.encryptionKey before initialize(key)
NoKey == "null"

Keys == {"k1", "k2"}

\* The most documents a collection of the replica holds.
MaxDocs == 2

\* A document of the replica.  layers: the keys its content has been encrypted
\* under, innermost first: <<>> is a document with its fields in the clear, and
\* every layer is one { _encrypted: true, content: AES(JSON(the rest), key) }.
Plaintext(id, val) == [id |-> id, val |-> val, layers |-> <<>>]

\* encryptDocument(doc): everything but the six plain fields, _encrypted and
\* content of an encrypted document included, becomes the content.
EncryptDocument(doc, key) ==
  IF key = NoKey THEN doc ELSE [doc EXCEPT !.layers = Append(@, key)]

\* decryptDocument(doc): under another key AES.decrypt yields no JSON text,
\* JSON.parse throws and the catch returns doc as it is.
DecryptDocument(doc, key) ==
  IF doc.layers = <<>> \/ key = NoKey THEN doc
  ELSE IF doc.layers[Len(doc.layers)] = key
       THEN [doc EXCEPT !.layers = SubSeq(@, 1, Len(@) - 1)]
       ELSE doc

EmptyDb == [collection \in Collections |-> <<>>]

\* pc: idle | find | update | done | failed
\* rest: the collections of the loop, from the one it is at
\* docs, n, out: what find answered, the document the loop is at and
\* reEncryptedDoc;  before: the database when rotateEncryptionKey was called
NoRotation == [pc |-> "idle", newKey |-> NoKey, oldKey |-> NoKey, collections |-> <<>>,
               rest |-> <<>>, docs |-> <<>>, n |-> 0, out |-> <<>>, before |-> EmptyDb]

\* new EncryptionService(), and a database with nothing stored.
InitWorker ==
  /\ encryptionKey = NoKey
  /\ db = EmptyDb
  /\ rotation = NoRotation

\* initialize(key) with a key given as a string.
Initialize(key) ==
  /\ encryptionKey = NoKey
  /\ encryptionKey' = key
  /\ UNCHANGED <<now, serverVars, ex, started, clientVars, retryVars, admitVars, queueVars,
                 deltaVars, syncVars, monitorVars, appVars, db, rotation>>

\* The application stores a document of its own through the service:
\* collection.insert(encryptDocument(doc)).
StoreEncrypted(collection, val) ==
  /\ encryptionKey # NoKey
  /\ rotation.pc = "idle"
  /\ Len(db[collection]) < MaxDocs
  /\ db' = [db EXCEPT ![collection] =
              Append(@, EncryptDocument(Plaintext(Len(@) + 1, val), encryptionKey))]
  /\ UNCHANGED <<now, serverVars, ex, started, clientVars, retryVars, admitVars, queueVars,
                 deltaVars, syncVars, monitorVars, appVars, encryptionKey, rotation>>

\* The body of the inner loop for document n of docs, up to its await:
\* decryptDocument under the key of the service as it is now, then
\* this.encryptionKey = newKey, then encryptDocument.
Reencrypt(r, docs, n) ==
  [r EXCEPT !.pc = "update", !.docs = docs, !.n = n,
            !.out = <<EncryptDocument(DecryptDocument(docs[n], encryptionKey), r.newKey)>>]

\* The outer loop goes on to the next collection, or the rotation ends.
NextCollection(r) ==
  IF Len(r.rest) > 1 THEN [r EXCEPT !.pc = "find", !.rest = Tail(@), !.docs = <<>>, !.n = 0]
  ELSE [r EXCEPT !.pc = "done", !.rest = <<>>, !.docs = <<>>, !.n = 0]

\* The key of the service after a step that leaves the rotation at r.
KeyAfter(r) == IF r.pc \in {"update", "done"} THEN r.newKey ELSE encryptionKey

\* rotateEncryptionKey(newKey, db, collections), up to its first await.
RotateEncryptionKey(newKey, collections) ==
  /\ rotation.pc = "idle"
  /\ LET r == IF encryptionKey = NoKey THEN [NoRotation EXCEPT !.pc = "failed"]
              ELSE LET called == [NoRotation EXCEPT !.pc = "find", !.newKey = newKey,
                                                    !.oldKey = encryptionKey,
                                                    !.collections = collections,
                                                    !.rest = collections, !.before = db]
                   IN IF collections = <<>> THEN [called EXCEPT !.pc = "done"] ELSE called
     IN /\ rotation' = r
        /\ encryptionKey' = KeyAfter(r)
  /\ UNCHANGED <<now, serverVars, ex, started, clientVars, retryVars, admitVars, queueVars,
                 deltaVars, syncVars, monitorVars, appVars, db>>

\* await collection.find().exec() answers, and the loop runs to its first
\* await doc.update.
RotateFind ==
  /\ rotation.pc = "find"
  /\ LET docs == db[Head(rotation.rest)]
         r == IF docs = <<>> THEN NextCollection(rotation) ELSE Reencrypt(rotation, docs, 1)
     IN /\ rotation' = r
        /\ encryptionKey' = KeyAfter(r)
  /\ UNCHANGED <<now, serverVars, ex, started, clientVars, retryVars, admitVars, queueVars,
                 deltaVars, syncVars, monitorVars, appVars, db>>

\* await doc.update({ $set: reEncryptedDoc }) returns, and the loop runs to its
\* next await or to the end.
RotateUpdate ==
  /\ rotation.pc = "update"
  /\ db' = [db EXCEPT ![Head(rotation.rest)][rotation.n] = rotation.out[1]]
  /\ LET r == IF rotation.n < Len(rotation.docs)
              THEN Reencrypt(rotation, rotation.docs, rotation.n + 1)
              ELSE NextCollection(rotation)
     IN /\ rotation' = r
        /\ encryptionKey' = KeyAfter(r)
  /\ UNCHANGED <<now, serverVars, ex, started, clientVars, retryVars, admitVars, queueVars,
                 deltaVars, syncVars, monitorVars, appVars>>

\* find or update rejects: the rejection leaves rotateEncryptionKey.
RotateThrows ==
  /\ rotation.pc \in {"find", "update"}
  /\ rotation' = [rotation EXCEPT !.pc = "failed"]
  /\ UNCHANGED <<now, serverVars, ex, started, clientVars, retryVars, admitVars, queueVars,
                 deltaVars, syncVars, monitorVars, appVars, encryptionKey, db>>

InitRest ==
  /\ InitAdmit({<<>>}, {0}) /\ InitDelta /\ InitState({"server-wins"})
  /\ InitMonitor /\ InitApp /\ InitWorker

InitWith(cfgs) == InitSync(cfgs) /\ InitRetry /\ InitRest

Init == InitWith(Configs)

Next ==
  \/ \E a \in Actors : SerialSync(a)
  \/ \E a \in Actors : FindOne(a)
  \/ \E a \in Actors : FindOneThrows(a)
  \/ \E a \in Actors : Decide(a)
  \/ \E a \in Actors : Write(a)
  \/ \E a \in Actors : WriteThrows(a)
  \/ \E a \in Actors : Query(a)
  \/ \E a \in Actors : QueryThrows(a)
  \/ \E a \in Actors : Respond(a)
  \/ \E a \in Actors : StartChanges(a)
  \/ \E a \in Actors : ChangesFindOne(a)
  \/ \E a \in Actors : ChangesFindOneThrows(a)
  \/ \E a \in Actors : ChangesDecide(a)
  \/ \E a \in Actors : ChangesWrite(a)
  \/ \E a \in Actors : ChangesWriteThrows(a)
  \/ \E a \in Actors : ReturnChanges(a)
  \/ \E a \in Actors : GetChanges(a)
  \/ \E a \in Actors : Finish(a)
  \/ Tick

Spec == Init /\ [][Next]_vars

\* -------------------------------------------------------- SyncRetryService
\* The payloads a caller may register.
RetryPayloads == {Doc("1", MaxTs, NoOwner, "a", FALSE, 0)}

\* registerFailedSync(collectionName, operation, payload): push, save,
\* scheduleRetries; lastError is String(undefined) when no error is passed.  No
\* code of the repository calls it.
RegisterFailedSync(operation, payload) ==
  /\ nextId <= MaxPending
  /\ pendingAttempts' = Append(pendingAttempts,
        [id |-> nextId, operation |-> operation, payload |-> payload,
         timestamp |-> now, retries |-> 0, lastError |-> "undefined"])
  /\ storage' = <<pendingAttempts'>>
  /\ pendingSubject' = Emission(Len(pendingAttempts'))
  /\ retryTimerId' = TRUE
  /\ nextId' = nextId + 1
  /\ history' = [history EXCEPT ![nextId].fate = "queued"]
  /\ UNCHANGED <<now, serverVars, ex, started, clientVars, admitVars, deltaVars, syncVars, monitorVars, appVars, workerVars,
                 loading, pass, online>>

\* One actor's exchanges with processSync, next to the retry queue.
NextRetry ==
  \/ SerialSync("A")
  \/ FindOne("A")
  \/ FindOneThrows("A")
  \/ Decide("A")
  \/ Write("A")
  \/ WriteThrows("A")
  \/ Query("A")
  \/ QueryThrows("A")
  \/ Respond("A")
  \/ Finish("A")
  \/ Tick
  \/ \E op \in {"push", "pull"}, d \in RetryPayloads : RegisterFailedSync(op, d)

SpecRetry == InitWith({Plain}) /\ [][NextRetry]_vars

\* ------------------------------------------------- concurrent exchanges
\* Two replicas that edit and then exchange, their exchanges interleaving at
\* every await of processSync; the store does not fail.
NextRace ==
  \/ \E a \in Actors : FreshEdit(a)
  \/ \E a \in Actors : SyncCollection(a)
  \/ \E a \in Actors : FindOne(a)
  \/ \E a \in Actors : Decide(a)
  \/ \E a \in Actors : Write(a)
  \/ \E a \in Actors : Query(a)
  \/ \E a \in Actors : Respond(a)
  \/ \E a \in Actors : Receive(a)
  \/ Tick

SpecRace == InitWith({Plain}) /\ [][NextRace]_vars

\* ------------------------------------------- one exchange after the other
\* Two replicas that edit and then exchange, one exchange at a time; the store
\* may fail at every operation.
NextConv ==
  \/ \E a \in Actors : FreshEdit(a)
  \/ \E a \in Actors : SerialCollection(a)
  \/ \E a \in Actors : FindOne(a)
  \/ \E a \in Actors : FindOneThrows(a)
  \/ \E a \in Actors : Decide(a)
  \/ \E a \in Actors : Write(a)
  \/ \E a \in Actors : WriteThrows(a)
  \/ \E a \in Actors : Query(a)
  \/ \E a \in Actors : QueryThrows(a)
  \/ \E a \in Actors : Respond(a)
  \/ \E a \in Actors : Receive(a)
  \/ \E a \in Actors : ReceiveError(a)
  \/ Tick

SpecConv == InitWith({Plain}) /\ [][NextConv]_vars

\* ------------------------------------------------- a batch submitted twice
\* The batches a client may submit: up to MaxBatch documents, in any order,
\* repetitions included.
Batches == UNION {[1..n -> RawDocs] : n \in 1..MaxBatch}

\* An earlier exchange of any client, which leaves the store in some state.
Prepare(a) ==
  /\ \A b \in Actors : sent[b] = <<>>
  /\ SerialSync(a)

\* POST /sync/:collection with a batch the client keeps, and with the
\* watermark of its last response.
SubmitBatch(a) ==
  /\ config.variant = "processSync"
  /\ \A b \in Actors : ~Busy(b) /\ sent[b] = <<>>
  /\ \E batch \in Batches :
       /\ ex' = [ex EXCEPT ![a] = [Idle EXCEPT !.pc = "loop", !.raw = FALSE,
                                              !.since = lastSync[a], !.batch = batch]]
       /\ sent' = [sent EXCEPT ![a] = batch]
  /\ UNCHANGED <<now, serverVars, started, seen, lastSync, local, prev, retryVars, restVars>>

\* The same client posts the same batch again, right after the response.
Resubmit(a) ==
  /\ ~Busy(a)
  /\ sent[a] # <<>>
  /\ ex[a].timestamp > 0
  /\ ~prev[a].set
  /\ ex' = [ex EXCEPT ![a] = [Idle EXCEPT !.pc = "loop", !.raw = FALSE,
                                         !.since = lastSync[a], !.batch = sent[a]]]
  /\ prev' = [prev EXCEPT ![a] = [set |-> TRUE, res |-> ex[a].res, store |-> store]]
  /\ UNCHANGED <<now, serverVars, started, seen, lastSync, local, sent, retryVars, restVars>>

\* The store does not fail and no conflict handler is configured.
NextIdem ==
  \/ \E a \in Actors : Prepare(a)
  \/ \E a \in Actors : SubmitBatch(a)
  \/ \E a \in Actors : Resubmit(a)
  \/ \E a \in Actors : FindOne(a)
  \/ \E a \in Actors : Decide(a)
  \/ \E a \in Actors : Write(a)
  \/ \E a \in Actors : Query(a)
  \/ \E a \in Actors : Respond(a)
  \/ \E a \in Actors : Finish(a)
  \/ \E a \in Actors : Receive(a)
  \/ Tick

SpecIdem ==
  /\ InitWith({c \in Configs : c.variant = "processSync" /\ c.handler = "none"})
  /\ [][NextIdem]_vars

\* ------------------------------------------------------ admission runs
\* The chains of middleware an application mounts.
Chains == {<<"rateLimitMiddleware">>, <<"rateLimit">>, <<"protect", "rateLimit">>}

\* One client's requests through a chain and on to processSync.
NextGate ==
  \/ \E route \in {"sync", "status"} : Request("A", route)
  \/ RateLimitMiddleware("A")
  \/ RateLimit("A")
  \/ Protect("A")
  \/ SyncMiddleware("A")
  \/ Status("A")
  \/ FindOne("A")
  \/ Decide("A")
  \/ Write("A")
  \/ Query("A")
  \/ Respond("A")
  \/ Answer("A")
  \/ Tick

InitGate ==
  /\ InitSync({Plain}) /\ InitRetry /\ InitAdmit(Chains, {GateLimit}) /\ InitDelta
  /\ InitState({"server-wins"}) /\ InitMonitor /\ InitApp /\ InitWorker

SpecGate == InitGate /\ [][NextGate]_vars

\* One client's status requests against rateLimitMiddleware at 60 a minute.
NextAdmit ==
  \/ Request("A", "status")
  \/ RateLimitMiddleware("A")
  \/ Status("A")
  \/ Elapse

InitSixty ==
  /\ InitSync({Plain}) /\ InitRetry /\ InitDelta /\ InitState({"server-wins"})
  /\ InitMonitor /\ InitApp /\ InitWorker
  /\ InitAdmit({<<"rateLimitMiddleware">>}, {DEFAULT_RATE_LIMIT})

SpecAdmit == InitSixty /\ [][NextAdmit]_vars

\* The chains of the runs that follow the suspects: protect in front of
\* rateLimit, and what SyncMiddleware hands out (rateLimit, injectionProtection)
\* behind bruteForceProtection.  rateLimit, which wraps res.end, comes last.
SuspectChains == {<<"protect", "rateLimit">>,
                  <<"bruteForceProtection", "injectionProtection", "rateLimit">>}

\* One address's status requests through a chain, and the timers.
NextSuspect ==
  \/ Request("A", "status")
  \/ Protect("A")
  \/ BruteForceProtection("A")
  \/ InjectionProtection("A")
  \/ RateLimit("A")
  \/ Status("A")
  \/ ForgetSuspicious("A")
  \/ Unblock("A")
  \/ Sleep

InitSuspect ==
  /\ InitSync({Plain}) /\ InitRetry /\ InitDelta /\ InitState({"server-wins"})
  /\ InitAdmit(SuspectChains, {GateLimit, MaxSlow + 1}) /\ InitMonitor /\ InitApp /\ InitWorker

SpecSuspect == InitSuspect /\ [][NextSuspect]_vars

\* Two addresses' status requests, all within half a minute, through
\* rateLimitMiddleware, or through injectionProtection and rateLimit.
SharedChains == {<<"rateLimitMiddleware">>, <<"injectionProtection", "rateLimit">>}

NextShared ==
  \/ \E a \in Actors :
       \/ Request(a, "status")
       \/ RateLimitMiddleware(a)
       \/ InjectionProtection(a)
       \/ RateLimit(a)
       \/ Status(a)

InitShared ==
  /\ InitSync({Plain}) /\ InitRetry /\ InitDelta /\ InitState({"server-wins"})
  /\ InitAdmit(SharedChains, {GateLimit}) /\ InitMonitor /\ InitApp /\ InitWorker

SpecShared == InitShared /\ [][NextShared]_vars

\* The local writes of an application, its sync queue and the clock.
MaxRuns == 2

NextDebounce ==
  \/ \E collection \in Collections : QueueSync(collection)
  \/ ProcessSyncQueue
  \/ \E k \in 1..MaxRuns : SyncCollectionReturns(k)
  \/ Connectivity
  \/ Elapse

InitDebounce == InitWith({Plain})

SpecDebounce == InitDebounce /\ [][NextDebounce]_vars

\* One address's status requests through the router of createSyncRouter.
NextStrict ==
  \/ Request("A", "status")
  \/ SecurityRateLimitMiddleware("A")
  \/ Status("A")
  \/ Tick

InitStrict ==
  /\ InitSync({Plain}) /\ InitRetry /\ InitDelta /\ InitState({"server-wins"})
  /\ InitAdmit({<<"securityMiddleware.rateLimitMiddleware">>}, {0}) /\ InitMonitor /\ InitApp /\ InitWorker

SpecStrict == InitStrict /\ [][NextStrict]_vars

\* The clock of the runs of one client that sends at most one request per tick.
MaxPace == 22

\* A tick passes.
Pace ==
  /\ now < MaxPace
  /\ now' = now + 1
  /\ UNCHANGED <<serverVars, ex, started, clientVars, retryVars, restVars>>

\* No request of client a has been measured at this instant.
NotYet(a) ==
  IF responseTimesHistory[a] = <<>> THEN TRUE
  ELSE responseTimesHistory[a][1].lastRequestTime < now

\* One client behind createSyncRouter's rate limiter that sends a request in
\* some ticks and none in others.
NextSpacing ==
  \/ NotYet("A") /\ Request("A", "status")
  \/ SecurityRateLimitMiddleware("A")
  \/ Status("A")
  \/ Pace

SpecSpacing == InitStrict /\ [][NextSpacing]_vars


\* ------------------------------------------------------ watermark runs
\* One replica with two calls of syncCollection that may overlap, against a
\* server that may fail, and a local store that may fail.
NextWatermark ==
  \/ FreshEdit("A")
  \/ \E c \in Actors : SyncCollectionOf(c, "A")
  \/ \E c \in Actors : FindOne(c)
  \/ \E c \in Actors : Decide(c)
  \/ \E c \in Actors : Write(c)
  \/ \E c \in Actors : Query(c)
  \/ \E c \in Actors : QueryThrows(c)
  \/ \E c \in Actors : Respond(c)
  \/ \E c \in Actors : ReceiveOf(c, "A", {})
  \/ \E c \in Actors : ReceiveSkipping(c, "A")
  \/ \E c \in Actors : ReceiveError(c)
  \/ Tick

SpecWatermark == InitWith({Plain}) /\ [][NextWatermark]_vars

\* ------------------------------------------------------------ queue runs
\* What an earlier run of the application may have left under the key: nothing,
\* or one attempt it had registered.
Stored ==
  {<<>>} \cup {<<<<[id |-> 0, operation |-> "push", payload |-> d,
                  timestamp |-> 1, retries |-> 0, lastError |-> "undefined"]>>>> :
             d \in RetryPayloads}

\* The retry queue from the construction of the service on.
NextQueue ==
  \/ \E op \in {"push", "pull"}, d \in RetryPayloads : RegisterFailedSync(op, d)
  \/ LoadPendingAttempts
  \/ ProcessRetries
  \/ RetrySucceeds
  \/ RetryFails
  \/ EndPass
  \/ Connectivity
  \/ Restart
  \/ Tick

InitQueue ==
  /\ InitSync({Plain}) /\ InitRest
  /\ \E stored \in Stored : Construct(stored)

SpecQueue == InitQueue /\ [][NextQueue]_vars

\* The passes of processRetries followed per run.
MaxPasses == 2

\* The queue an earlier run has persisted when MaxStored deliveries failed, all
\* within one tick of its clock or half of them in the next, and the passes of
\* that run then failed `retries` times for each attempt they took up.
Persisted(late, retries) ==
  [k \in 1..MaxStored |->
     [id |-> k - MaxStored, operation |-> "push",
      payload |-> Doc("1", MaxTs, NoOwner, "a", FALSE, 0),
      timestamp |-> IF k \in late THEN 2 ELSE 1,
      retries |-> IF k <= BatchSize THEN retries ELSE 0,
      lastError |-> IF k <= BatchSize /\ retries > 0 THEN "rejected" ELSE "undefined"]]

StoredQueues ==
  {<<Persisted(late, retries)>> :
     late \in {{}, {k \in 1..MaxStored : 2 * k > MaxStored}}, retries \in {0, MaxRetries}}

\* The retry queue over more attempts than one pass takes up.
NextBatch ==
  \/ \E d \in RetryPayloads : RegisterFailedSync("push", d)
  \/ LoadPendingAttempts
  \/ (\A id \in AttemptIds : history[id].failures < MaxPasses) /\ ProcessRetries
  \/ RetrySucceeds
  \/ RetryFails
  \/ EndPass
  \/ Connectivity

InitBatch ==
  /\ InitSync({Plain}) /\ InitRest
  /\ \E stored \in StoredQueues : Construct(stored)

SpecBatch == InitBatch /\ [][NextBatch]_vars

\* ------------------------------------------------------------ delta runs
NextDelta ==
  \/ \E doc \in DeltaDocs : SaveLastSyncedVersion(doc)
  \/ \E doc \in DeltaDocs : GenerateDelta(doc)
  \/ ApplyDelta
  \/ \E doc \in DeltaDocs : ApplyDeltaOn(doc)

SpecDelta == InitWith({Plain}) /\ [][NextDelta]_vars

\* --------------------------------------------------------- conflict runs
Strategies == {"server-wins", "client-wins", "timestamp-wins", "manual"}

\* What the exchanges of other clients may have left in the store: nothing, a
\* document, or a document that carries a field lastSyncedAt (processSync
\* stores every field of a pushed document).
Left == Doc("1", MaxTs, NoOwner, "a", FALSE, 1)

Seeded == {<<>>, <<Left>>, <<[Left EXCEPT !.lSA = 0]>>}

\* One replica under one strategy that edits, exchanges and resolves its
\* conflicts; no store fails.
NextConflict ==
  \/ Edit("A")
  \/ SyncCollection("A")
  \/ FindOne("A")
  \/ Decide("A")
  \/ Write("A")
  \/ Query("A")
  \/ Respond("A")
  \/ Receive("A")
  \/ \E id \in EditIds, resolution \in {"local", "server", "custom"} :
        ResolveConflict("A", id, resolution)
  \/ ResolveConflictUpdate("A")
  \/ ResolveConflictReturns("A")
  \/ Connectivity
  \/ Elapse

InitConflict ==
  /\ now = 1
  /\ config = Plain
  /\ store \in Seeded
  /\ ex = [a \in Actors |-> Idle]
  /\ started = 0
  /\ seen = [a \in Actors |-> {}]
  /\ lastSync = [a \in Actors |-> 0]
  /\ local = [a \in Actors |-> [i \in Ids |-> <<>>]]
  /\ sent = [a \in Actors |-> <<>>]
  /\ prev = [a \in Actors |-> NoPrev]
  /\ InitRetry /\ InitAdmit({<<>>}, {0}) /\ InitDelta /\ InitState(Strategies)
  /\ InitMonitor /\ InitApp /\ InitWorker

SpecConflict == InitConflict /\ [][NextConflict]_vars

\* One replica under 'manual' whose application edits, counts its pending
\* changes, calls syncAll and resolves its conflicts, next to one another, over
\* a store in which another client has left a document.
NextState ==
  \/ Edit("A")
  \/ IncrementPendingChanges("A")
  \/ SyncAll("A")
  \/ \E k \in 1..MaxBodies : SyncAllCollection("A", k)
  \/ \E k \in 1..MaxBodies : SyncAllThrows("A", k)
  \/ \E k \in 1..MaxBodies : SyncAllReturns("A", k)
  \/ \E a \in Actors : FindOne(a)
  \/ \E a \in Actors : Decide(a)
  \/ \E a \in Actors : Write(a)
  \/ \E a \in Actors : Query(a)
  \/ \E a \in Actors : QueryThrows(a)
  \/ \E a \in Actors : Respond(a)
  \/ \E a \in Actors : ReceiveOf(a, "A", {})
  \/ \E a \in Actors : ReceiveError(a)
  \/ \E id \in EditIds, resolution \in {"local", "server"} :
        ResolveConflict("A", id, resolution)
  \/ ResolveConflictUpdate("A")
  \/ ResolveConflictReturns("A")
  \/ Tick

InitSyncState ==
  /\ now = 1
  /\ config = Plain
  /\ store = <<[Left EXCEPT !.lSA = 0]>>
  /\ ex = [a \in Actors |-> Idle]
  /\ started = 0
  /\ seen = [a \in Actors |-> {}]
  /\ lastSync = [a \in Actors |-> 0]
  /\ local = [a \in Actors |-> [i \in Ids |-> <<>>]]
  /\ sent = [a \in Actors |-> <<>>]
  /\ prev = [a \in Actors |-> NoPrev]
  /\ InitRetry /\ InitAdmit({<<>>}, {0}) /\ InitDelta /\ InitState({"manual"})
  /\ InitMonitor /\ InitApp /\ InitWorker

SpecState == InitSyncState /\ [][NextState]_vars

\* ============================================================== properties
Stepped(a) == ex'[a] # ex[a]

TallyOf(r) == <<r.added, r.updated, r.processed>>

\* ------------------------------------------------------------------- C1
\* C1 (atomic check-and-set): whenever an exchange commits a write of a
\* document, no version of that document which the store already holds has a
\* higher updatedAt than the written one: a write decided on a stale read never
\* lands next to, or over, a newer version that another exchange committed in
\* between.
CommitsBelow(a) ==
  /\ ex[a].pc = "write"
  /\ Stepped(a)
  /\ store' # store
  /\ \E k \in 1..Len(store) :
       /\ store[k].id = ex[a].doc[1].id
       /\ store[k].updatedAt > ex[a].doc[1].updatedAt

C1_AtomicCheckAndSet == [][\A a \in Actors : ~CommitsBelow(a)]_vars

\* ------------------------------------------------------------------- C2
\* C2 (no committed write is missed forever): for an actor between two
\* exchanges, every document of the store whose serverUpdatedAt its watermark
\* has reached, and which no later query of that actor can therefore return,
\* has been in the docs of one of its responses.
C2_NothingMissed ==
  \A a \in Actors :
    ~Busy(a) =>
      \A k \in 1..Len(store) :
        store[k].sUA <= lastSync[a] => store[k] \in seen[a]

\* ------------------------------------------------------------------- C3
\* Each actor has pushed one edit of the same document, the two edits differ,
\* each actor has received the response to its one exchange, and both pushes
\* went through the server's resolution (they are in the tallies).
BothExchanged ==
  /\ started = 2
  /\ \A a \in Actors : ex[a].pc = "idle" /\ ex[a].timestamp > 0

ConflictingEdits ==
  /\ \A a \in Actors : Len(sent[a]) = 1
  /\ sent["A"][1].id = sent["B"][1].id
  /\ Content(sent["A"][1]) # Content(sent["B"][1])

Resolved(a) == ex[a].res.added + ex[a].res.updated + ex[a].res.conflicts = 1

\* The replica of actor a holds the authoritative version of the edited document.
Agree(a) ==
  LET id == sent[a][1].id
  IN /\ FindOneIn(store, id) # <<>>
     /\ local[a][id] # <<>>
     /\ Content(local[a][id][1]) = Content(FindOneIn(store, id)[1])

Resubmitted(a) == prev[a].set /\ ex[a].pc \in {"responded", "idle"}

\* A stored document without its serverUpdatedAt.
Unstamped(d) == [d EXCEPT !.sUA = 0]

Unstamp(coll) == [k \in 1..Len(coll) |-> Unstamped(coll[k])]

\* No two documents of the batch share an id.
DistinctIds(batch) ==
  \A j, k \in 1..Len(batch) : batch[j].id = batch[k].id => j = k

ClientNotOlder(e) ==
  /\ e.pc \in {"found", "foundChange"}
  /\ e.existing # <<>>
  /\ e.existing[1].updatedAt <= e.doc[1].updatedAt

\* The stored document has the fields of pushed document d, with d's values.
Carries(stored, d) ==
  /\ stored.id = d.id
  /\ stored.updatedAt = d.updatedAt
  /\ stored.val = d.val
  /\ d.deleted => stored.deleted

TieBreakDecides(a) ==
  (ClientNotOlder(ex[a]) /\ Stepped(a)) =>
     /\ ex'[a].pc \in {"write", "writeChange"}
     /\ ex'[a].op \in {"update", "replace", "delete"}
     /\ ex'[a].res = ex[a].res
     /\ Content(ex'[a].doc[1]) = Content(ex[a].doc[1])

TieBreakStores(a) ==
  (ex[a].op \in {"update", "replace"} /\ ex'[a].last = "updated" /\ Stepped(a)) =>
     /\ FindOneIn(store', ex[a].doc[1].id) # <<>>
     /\ Carries(FindOneIn(store', ex[a].doc[1].id)[1], ex[a].doc[1])
     /\ ex'[a].res.conflicts = ex[a].res.conflicts
     /\ ex'[a].res.updated + ex'[a].res.processed
          = ex[a].res.updated + ex[a].res.processed + 1

C6_ServerWins ==
  \A a \in Actors :
    ( /\ ex[a].pc = "responded"
      /\ ex[a].n = 1
      /\ ex[a].existing # <<>>
      /\ config.handler = "none"
      /\ ~config.ownership
      /\ ex[a].existing[1].updatedAt > ex[a].doc[1].updatedAt )
    => /\ ex[a].res = [NoResults EXCEPT !.conflicts = 1]
       /\ FindOneIn(store, ex[a].doc[1].id) = ex[a].existing
       /\ ex[a].existing[1] \in Range(ex[a].docs)

\* ------------------------------------------------------------------- C7
\* C7 (insert and visibility): a pushed document for which findOne answers
\* nothing takes the insert branch; when the store executes the insert, the
\* collection gains exactly that document and added grows by exactly one; and
\* the response of every exchange with watermark 0, with no owner restriction
\* configured, holds every document of the collection.
InsertDecided(a) ==
  (ex[a].pc = "found" /\ ex[a].existing = <<>> /\ Stepped(a)) =>
     /\ ex'[a].pc = "write"
     /\ ex'[a].op = "insert"
     /\ ex'[a].res = ex[a].res
     /\ Content(ex'[a].doc[1]) = Content(ex[a].doc[1])

InsertCounted(a) ==
  (ex[a].pc = "write" /\ ex[a].op = "insert" /\ ex'[a].last = "added" /\ Stepped(a)) =>
     /\ store' = Append(store, ex[a].doc[1])
     /\ ex'[a].res = [ex[a].res EXCEPT !.added = ex[a].res.added + 1]

PullFromZeroSeesAll ==
  \A b \in Actors :
    (ex[b].pc = "responded" /\ ex[b].since = 0 /\ ~config.ownership) =>
       \A k \in 1..Len(store) : store[k] \in Range(ex[b].docs)

C7_InsertVisible ==
  [][(\A a \in Actors : InsertDecided(a) /\ InsertCounted(a)) /\ PullFromZeroSeesAll']_vars

\* A second exchange that pushed nothing and pulled, from watermark 0, a
\* document an earlier exchange had inserted.
C7_Witness ==
  \E b \in Actors :
    /\ ex[b].pc = "responded"
    /\ ex[b].since = 0
    /\ ex[b].n = 0
    /\ started = 2
    /\ ~config.ownership
    /\ Len(store) = 1
    /\ ex[b].docs = store

\* ------------------------------------------------------------------- C8
\* C8 (ownership precedes resolution): whenever the loop takes up a pushed
\* document whose owner field is set to another actor than the requesting one,
\* that very step rejects it: the loop goes on, the store is unchanged and
\* nothing is tallied as added, updated, processed or conflict; and such a
\* document is never at findOne, at resolution or at a write.
Foreign(d, a) == config.ownership /\ d.owner # NoOwner /\ d.owner # a

TakesUpForeign(a) ==
  /\ ex'[a].n = ex[a].n + 1
  /\ ex'[a].doc # <<>>
  /\ Foreign(ex'[a].doc[1], a)

ForeignIsSkipped(a) ==
  TakesUpForeign(a) =>
     /\ ex'[a].pc = "loop"
     /\ ex'[a].last = "rejected"
     /\ store' = store
     /\ TallyOf(ex'[a].res) = TallyOf(ex[a].res)
     /\ ex'[a].res.conflicts = ex[a].res.conflicts

ForeignNeverResolved ==
  \A a \in Actors :
    (ex[a].doc # <<>> /\ Foreign(ex[a].doc[1], a)) =>
       /\ ex[a].pc \notin {"found", "write", "foundChange", "writeChange"}
       /\ ex[a].last = "rejected"

C8_OwnershipFirst ==
  [][(\A a \in Actors : ForeignIsSkipped(a)) /\ ForeignNeverResolved']_vars

\* A foreign document newer than the stored copy of the same id has been
\* skipped, and the stored copy is still there.
C8_Witness ==
  \E a \in Actors :
    /\ ex[a].pc = "loop"
    /\ ex[a].last = "rejected"
    /\ Foreign(ex[a].doc[1], a)
    /\ FindOneIn(store, ex[a].doc[1].id) # <<>>
    /\ FindOneIn(store, ex[a].doc[1].id)[1].updatedAt < ex[a].doc[1].updatedAt

\* ------------------------------------------------------------------- C9
\* C9 (a failing document does not abort the batch): a step in which a
\* document fails (rejected by validation or ownership, or a store operation
\* throws) leaves the store, the tally of added / updated / processed /
\* conflicts, the watermark and the outgoing docs as they were and returns to the
\* head of the loop, from where the next document is taken up as usual; the
\* exchange fails as a whole only from the head of the loop, on the final find.
DocFails(a) ==
  /\ Stepped(a)
  /\ ex'[a].last \in {"rejected", "error"}
  /\ (ex'[a].n = ex[a].n + 1 \/ ex[a].pc \in {"write", "writeChange"})

FailureIsLocal(a) ==
  DocFails(a) =>
     /\ ex'[a].pc = "loop"
     /\ store' = store
     /\ TallyOf(ex'[a].res) = TallyOf(ex[a].res)
     /\ ex'[a].res.conflicts = ex[a].res.conflicts
     /\ ex'[a].docs = ex[a].docs
     /\ ex'[a].since = ex[a].since

OnlyFindAborts(a) ==
  (ex'[a].pc = "failed" /\ Stepped(a)) => ex[a].pc = "loop"

C9_BatchGoesOn == [][\A a \in Actors : FailureIsLocal(a) /\ OnlyFindAborts(a)]_vars

\* The first document of a batch failed on a store error and the second one
\* has been added.
C9_Witness ==
  \E a \in Actors :
    /\ ex[a].n = 2
    /\ ex[a].res.added + ex[a].res.processed = 1
    /\ ex[a].last = "added"
    /\ Len(store) = 1
    /\ started = 1

\* ------------------------------------------------------------------ C10
\* C10 (a store error enqueues a PendingOperation): whenever a store operation
\* has thrown while a document of a batch was being applied, the retry queue
\* holds a pending operation for that document.
C10_FailureQueued ==
  \A a \in Actors :
    (ex[a].last = "error" /\ ex[a].doc # <<>>) =>
       \E k \in 1..Len(pendingAttempts) :
          pendingAttempts[k].payload.id = ex[a].doc[1].id

\* ------------------------------------------------------------------ C11
\* A step in which a middleware answers client a's request with 429 or 403.
Rejects(a) ==
  /\ http[a].pc = "chain"
  /\ http'[a].pc = "sent"
  /\ http'[a].status \in {429, 403}

\* A step in which processSync is invoked for client a.
Invokes(a) == ex[a].pc = "idle" /\ ex'[a].pc = "loop"

RECURSIVE AdmittedSince(_, _)
AdmittedSince(a, t) ==
  IF t > now THEN 0
  ELSE (IF t >= 1 THEN admits[a][t] ELSE 0) + AdmittedSince(a, t + 1)

\* A step in which rateLimitMiddleware decides on client a's request.
Decides(a) == Before(a, "rateLimitMiddleware") /\ http'[a] # http[a]

\* C12 (rate limit): against a bucket of 60 a minute, a request that arrives
\* when 60 requests of its client have been admitted inside the minute that
\* ends with it is answered with Throttle (429) and a retryAfter above zero.
C12_SixtyFirstThrottled ==
  [][\A a \in Actors :
       (/\ Decides(a)
        /\ security.rateLimit = DEFAULT_RATE_LIMIT
        /\ AdmittedSince(a, now - Minute + 1) >= DEFAULT_RATE_LIMIT)
       => (/\ http'[a].pc = "sent"
           /\ http'[a].status = 429
           /\ http'[a].retryAfter > 0)]_vars

\* ------------------------------------------------------------------ C13
\* C13 (the watermark never goes back): no step lowers a replica's stored
\* watermark, whichever way its calls of syncCollection overlap and in
\* whichever order their responses are taken.
C13_WatermarkMonotone == [][\A r \in Actors : lastSync'[r] >= lastSync[r]]_vars

\* ------------------------------------------------------------------ C14
\* C14 (the watermark follows the documents): a step that changes a replica's
\* watermark takes the response of an exchange that succeeded, sets the
\* watermark to the response's timestamp and leaves every document of the
\* response applied to the local collection.
C14_WatermarkAfterApply ==
  [][\A r \in Actors :
       lastSync'[r] # lastSync[r] =>
         \E c \in Actors :
           /\ ex[c].pc = "responded" /\ ex'[c].pc = "idle"
           /\ lastSync'[r] = ex[c].timestamp
           /\ local'[r] = ProcessServerDocs(local[r], ex[c].docs)]_vars

\* ------------------------------------------------------------------ C15
\* C15 (retry bound): no attempt's re-delivery fails a 12th time, an attempt
\* whose re-delivery has failed 11 times is no longer in the queue, and between
\* passes no attempt of the queue has retries above 10.
C15_RetryBound ==
  /\ \A id \in AttemptIds :
       /\ history[id].failures <= MaxRetries + 1
       /\ history[id].failures = MaxRetries + 1 => id \notin IdsOf(pendingAttempts)
  /\ pass.pc = "idle" =>
       \A k \in 1..Len(pendingAttempts) : pendingAttempts[k].retries <= MaxRetries

\* ------------------------------------------------------------------ C16
\* C16 (a dropped attempt is reported): the step that ends a pass of
\* processRetries tells its subscribers which attempts the pass gave up for
\* exceeding the retry ceiling.
C16_DropSurfaced ==
  [][(pass.pc = "loop" /\ pass'.pc = "idle" /\ loading' = loading)
       => pass.dropped \subseteq pendingSubject'.failed]_vars

\* ------------------------------------------------------------------ C17
\* An attempt is in the queue: in memory, or in the persisted copy.
Queued(id) ==
  \/ id \in IdsOf(pendingAttempts)
  \/ storage # <<>> /\ id \in IdsOf(storage[1])

\* C17 (the life of a pending operation): an attempt that was registered stays
\* in the queue, in memory or in the persisted copy, until its re-delivery has
\* succeeded or it has exceeded the retry ceiling.
C17_StaysUntilDone ==
  \A id \in AttemptIds :
    history[id].fate # "none" =>
      (Queued(id) \/ history[id].fate \in {"delivered", "dropped"})

\* ------------------------------------------------------------------ C18
\* C18 (the scheduler is armed while the queue holds work): in every state in
\* which the queue of the service is not empty, its interval is set.
C18_ArmedWhileQueued == pendingAttempts # <<>> => retryTimerId

\* ------------------------------------------------------------------ C19
\* C19 (delta threshold): generateDelta returns the full document when no
\* version of the document was synced before or when the serialized diff is
\* larger than 60% of the serialized current document, and the diff with the
\* revision of the version it starts from otherwise.
C19_Threshold ==
  unit.set =>
    IF unit.lastVersion = <<>>
       \/ 5 * DeltaSize(Diff(unit.lastVersion[1], unit.currentDoc)) > 3 * DocSize(unit.currentDoc)
    THEN unit.out = [kind |-> "full", fullDocument |-> unit.currentDoc]
    ELSE unit.out = [kind |-> "delta",
                     delta |-> Diff(unit.lastVersion[1], unit.currentDoc),
                     baseVersion |-> unit.lastVersion[1]["_rev"]]

\* ------------------------------------------------------------------ C20
\* C20 (delta round trip): for a version d1 synced before and any version d2,
\* d1 = d2 included, generateDelta answers with a transfer unit, a full unit
\* carries d2, and applying a delta unit to d1 gives d2.
C20_RoundTrip ==
  (unit.set /\ unit.lastVersion # <<>>) =>
    /\ unit.out.kind \in {"full", "delta"}
    /\ unit.out.kind = "full" => unit.out.fullDocument = unit.currentDoc
    /\ patched # <<>> => patched[1] = unit.currentDoc

\* ------------------------------------------------------------------ C21
\* C21 (base version of a delta): applying a delta to a document whose
\* revision differs from the base version the delta was computed against
\* fails with DeltaApplyError and returns no patched document.
C21_BaseVersionChecked ==
  (applied.set /\ applied.document["_rev"] # applied.baseVersion)
    => applied.out.kind = "DeltaApplyError"

\* ------------------------------------------------------------------ C22
\* The ids of the documents of a collection.
StoredIds(coll) == {coll[k].id : k \in 1..Len(coll)}

\* The exchange of actor a commits the write of a pushed tombstone over a
\* stored copy that is not newer.
DeletesByPush(a) ==
  /\ ex[a].pc \in {"write", "writeChange"}
  /\ store' # store
  /\ ex[a].existing # <<>>
  /\ ex[a].doc[1].deleted
  /\ ex[a].doc[1].updatedAt >= ex[a].existing[1].updatedAt

\* C22 (soft delete): no step of an exchange takes a document out of the
\* authoritative store, and the step that commits a pushed tombstone over a
\* copy that is not newer leaves the document in the store, flagged deleted,
\* with the tombstone's id and updatedAt.
C22_SoftDelete ==
  [][/\ StoredIds(store) \subseteq StoredIds(store')
     /\ \A a \in Actors :
          DeletesByPush(a) =>
            \E k \in 1..Len(store') :
               /\ store'[k].id = ex[a].doc[1].id
               /\ store'[k].deleted
               /\ store'[k].updatedAt = ex[a].doc[1].updatedAt]_vars

\* ------------------------------------------------------------------ C23
\* findOne has answered that the store has no document of the pushed id, and
\* the exchange of actor a takes its branch.
AbsentDecided(a) ==
  /\ ex[a].pc \in {"found", "foundChange"}
  /\ ex[a].existing = <<>>
  /\ Stepped(a)

\* The exchange of actor a commits a write for a pushed id the store lacked.
AbsentWritten(a) ==
  /\ ex[a].pc \in {"write", "writeChange"}
  /\ ex[a].existing = <<>>
  /\ store' # store

\* C23 (deleting what never existed): for a pushed document whose id the
\* store lacks, a tombstone ends its iteration with no write scheduled and
\* nothing counted as added, a live document is scheduled for insertion, and
\* the only write ever committed for such an id is the insertion of a live
\* document.
C23_DeleteAbsentNoOp ==
  [][\A a \in Actors :
       /\ AbsentDecided(a) =>
            IF ex[a].doc[1].deleted
            THEN /\ ex'[a].pc = "loop"
                 /\ ex'[a].op = "none"
                 /\ ex'[a].res.added = ex[a].res.added
            ELSE /\ ex'[a].pc \in {"write", "writeChange"}
                 /\ ex'[a].op = "insert"
       /\ AbsentWritten(a) =>
            /\ ~ex[a].doc[1].deleted
            /\ store' = InsertOneIn(store, ex[a].doc[1])]_vars

\* ------------------------------------------------------------------ C24
\* The local copy was modified since it was synced and the incoming server
\* version is another version of the document: modified on both sides.
BothModified(localDoc, serverDoc) ==
  localDoc.modified /\ Content(serverDoc) # Content(localDoc)

\* The conflict records a step adds to replica r's sync state.
Recorded(r) ==
  {syncState'[r].conflicts[k] :
     k \in (Len(syncState[r].conflicts) + 1)..Len(syncState'[r].conflicts)}

\* C24 (when a conflict record is made): the step in which a replica takes a
\* response adds a record for exactly the documents of the response whose
\* local copy was modified on both sides, and only under 'manual'; the record
\* holds the local and the server version, unresolved, and the local document
\* stays as it was.  Under the other strategies no record is ever added.
C24_RecordOnlyManual ==
  [][\A r \in Actors :
       /\ conflictResolution # "manual" => syncState'[r].conflicts = <<>>
       /\ \A c \in Recorded(r) :
            /\ ex[r].pc = "responded"
            /\ local[r][c.id] # <<>>
            /\ BothModified(local[r][c.id][1], c.serverVersion)
       /\ (conflictResolution = "manual" /\ ex[r].pc = "responded" /\ ex'[r].pc = "idle") =>
            \A k \in 1..Len(ex[r].docs) :
               LET d == ex[r].docs[k]
               IN (local[r][d.id] # <<>> /\ BothModified(local[r][d.id][1], d)) =>
                    /\ ConflictItem(local[r][d.id][1], d) \in Recorded(r)
                    /\ local'[r][d.id] = local[r][d.id]]_vars

\* ------------------------------------------------------------------ C25
\* The ids of the conflict records of a sync state.
ConflictIds(state) == {state.conflicts[k].id : k \in 1..Len(state.conflicts)}

\* The call of resolveConflict of replica r returns without an error.
Resolves(r) == resolving[r].pc \in {"awaiting", "syncing"} /\ resolving'[r].pc = "done"

\* C25 (when a conflict record goes): when a call of resolveConflict returns
\* without an error, the sync state holds no record of the document it
\* resolved; and a record leaves the sync state only in the step of a call of
\* resolveConflict for its document that writes the resolution, which leaves
\* the local document with the content of the chosen version.
C25_RecordUntilResolved ==
  [][\A r \in Actors :
       /\ Resolves(r) => resolving[r].conflict[1].id \notin ConflictIds(syncState'[r])
       /\ \A id \in ConflictIds(syncState[r]) \ ConflictIds(syncState'[r]) :
            /\ resolving[r].pc = "awaiting"
            /\ resolving[r].conflict[1].id = id
            /\ local'[r][id] # <<>>
            /\ local'[r][id][1].val = resolving[r].chosen[1].val]_vars

\* ------------------------------------------------------------------ C26
\* The timer that will take address a off the list of suspects is pending,
\* and due within the hour.
ExpiryPending(a) ==
  \E t \in timers : t.fn = "suspiciousIPs.delete" /\ t.ip = a /\ t.at <= now + Hour

\* C26 (suspicious flag expiry): whichever path has put an address on the list
\* of suspects (rate-limit excess, brute force, injection, timing anomaly),
\* its removal is scheduled at most one hour ahead, so that it leaves the list
\* by itself.
C26_FlagExpires == \A a \in suspiciousIPs : ExpiryPending(a)

\* ------------------------------------------------------------------ C27
\* The requests of address a let through as a suspect's at instant t or later.
RECURSIVE StrictAdmittedSince(_, _)
StrictAdmittedSince(a, t) ==
  IF t > now THEN 0
  ELSE (IF t >= 1 THEN strictAdmits[a][t] ELSE 0) + StrictAdmittedSince(a, t + 1)

\* A step in which the rate limiter of the router decides on a's request.
DecidesStrict(a) ==
  Before(a, "securityMiddleware.rateLimitMiddleware") /\ http'[a] # http[a]

\* C27 (stricter bucket): a request of a suspected address that arrives when
\* the stricter limit of its requests (30 a minute here) has been let through
\* inside the minute that ends with it is throttled (429).
C27_StricterEnforced ==
  [][\A a \in Actors :
       (/\ DecidesStrict(a)
        /\ a \in suspiciousIPs
        /\ StrictAdmittedSince(a, now - Minute + 1) >= STRICTER_POINTS)
       => (http'[a].pc = "sent" /\ http'[a].status = 429)]_vars

\* ------------------------------------------------------------------ C28
\* The timer that will take address a off the block list is pending, and due
\* within ten minutes.
UnblockPending(a) ==
  \E t \in timers : t.fn = "blockList.delete" /\ t.ip = a /\ t.at <= now + TenMinutes

\* C28 (hard block): while an address is on the block list none of its
\* requests gets past the admission middleware to the handler, and its
\* removal from the list is scheduled at most ten minutes ahead.
C28_HardBlock ==
  \A a \in blockList :
    /\ ~Passed(a)
    /\ http[a].pc # "handler"
    /\ UnblockPending(a)

\* ------------------------------------------------------------------ C29
\* The counters the requests of address b are measured against: its counter
\* of rateLimitMiddleware, its limiter of rateLimit, and the stricter limiter
\* once it is suspected.
BucketOf(b) ==
  [rateLimits |-> rateLimits[b],
   ipRateLimiter |-> ipRateLimiter[b],
   stricterLimiter |-> IF b \in suspiciousIPs THEN <<stricterLimiter>> ELSE <<>>]

\* A step of the admission middleware on a request of address a.
Handles(a) == http[a].pc = "chain" /\ http'[a] # http[a]

\* C29 (actor-scoped counters): a step that admits or throttles a request of
\* one address leaves the counters, limiters and tokens of every other address
\* as they were, under the normal and under the stricter limit.
C29_ActorScoped ==
  [][\A a \in Actors : \A b \in Actors \ {a} :
       Handles(a) => BucketOf(b)' = BucketOf(b)]_vars

\* ------------------------------------------------------------------ C30
\* C30 (debounced sync-on-mutation): the writes queued when the timeout runs
\* are answered with one call of syncCollection for each collection written
\* to, and none of these calls is made before the inactivity window (2 s) has
\* passed since the last of those writes.
C30_Debounced ==
  \A k \in 1..Len(syncs) :
    /\ syncs[k].at >= syncs[k].last + ThrottleWindow
    /\ \A j \in 1..Len(syncs) :
         (syncs[j].burst = syncs[k].burst /\ syncs[j].collection = syncs[k].collection)
         => j = k
\* ------------------------------------------------------------------ C31
\* The documents of the collection, in natural order, that satisfy p.
RECURSIVE Matching(_, _, _, _)
Matching(coll, since, userId, field) ==
  IF coll = <<>> THEN <<>>
  ELSE (IF /\ (IF field = "updatedAt" THEN Head(coll).updatedAt ELSE Head(coll).sUA) > since
           /\ (userId = NoOwner \/ Head(coll).owner = userId)
        THEN <<Head(coll)>> ELSE <<>>) \o Matching(Tail(coll), since, userId, field)

\* The step in which processSync's query, or getChanges', is answered.
Queries(a) == ex[a].pc = "loop" /\ ex'[a].pc = "queried"
Gets(a) == ex[a].pc = "idle" /\ ex'[a].pc = "returned"

\* C31 (outgoing change set): the docs an exchange returns are exactly the
\* documents of the collection whose updatedAt is greater than the watermark of
\* the request, restricted to the actor's own documents when an owner field is
\* configured: none with a greater updatedAt is omitted and none with updatedAt
\* at or below the watermark is included.
C31_OutgoingByUpdatedAt ==
  [][\A a \in Actors :
       (Queries(a) \/ Gets(a)) =>
          ex'[a].docs = Matching(store, ex'[a].since, UserId(a), "updatedAt")]_vars

\* C31, amended: processSync returns exactly the documents whose serverUpdatedAt
\* (the server's clock at their last write by processSync) is greater than the
\* watermark, of the actor's own when an owner field is configured; getChanges
\* returns exactly the actor's own documents whose updatedAt is greater than
\* `since`.  Neither omits a document that qualifies nor includes one that does
\* not.
C31_OutgoingChangeSet ==
  [][\A a \in Actors :
       /\ Queries(a) =>
            ex'[a].docs = Matching(store, ex'[a].since, UserId(a), "serverUpdatedAt")
       /\ Gets(a) =>
            ex'[a].docs = Matching(store, ex'[a].since, a, "updatedAt")]_vars

\* An exchange under an owner field has returned one stored document and left
\* out another: one of an other actor, or one at or below the watermark.
C31_Witness ==
  \E a \in Actors :
    /\ ex[a].pc \in {"queried", "returned"}
    /\ config.ownership
    /\ ex[a].since > 0
    /\ Len(ex[a].docs) = 1
    /\ Len(store) = 2

\* ------------------------------------------------------------------ C32
\* The step is a call of incrementPendingChanges by replica r.
Increments(r) == Len(increments'[r]) = Len(increments[r]) + 1

\* C32 (incrementPendingChanges): every call raises pendingChanges of the sync
\* state by exactly one, whether a sync is in progress or not, and leaves
\* isSyncing, lastSyncTime, conflicts (and error) as they were.
C32_IncrementByOne ==
  [][\A r \in Actors :
       Increments(r) =>
         /\ syncState'[r].pendingChanges = syncState[r].pendingChanges + 1
         /\ syncState'[r].isSyncing = syncState[r].isSyncing
         /\ syncState'[r].lastSyncTime = syncState[r].lastSyncTime
         /\ syncState'[r].conflicts = syncState[r].conflicts
         /\ syncState'[r].error = syncState[r].error]_vars

\* A call made while a syncAll was executing, on a state that had a last sync
\* time and a conflict record to keep.
C32_Witness ==
  \E r \in Actors :
    /\ \E k \in 1..Len(increments[r]) : increments[r][k]
    /\ syncState[r].isSyncing
    /\ syncState[r].pendingChanges > 0
    /\ syncState[r].conflicts # <<>>

\* ------------------------------------------------------------------ C37
\* C37 (syncAll excludes itself and frees its flag): at most one body of syncAll
\* executes at any time, and isSyncing is true exactly while one executes, so
\* that it is false once the body has finished, in success or in failure,
\* whatever resolveConflict, incrementPendingChanges and processServerDocs
\* publish in between.
C37_ExclusiveSyncAll ==
  \A r \in Actors :
    /\ Cardinality(Executing(r)) <= 1
    /\ syncState[r].isSyncing <=> Executing(r) # {}

\* ------------------------------------------------------------------ C38
\* The step in which the call of resolveConflict of replica r publishes the sync
\* state, and the one in which it throws before it has published.
Publishes(r) == resolving[r].pc = "awaiting" /\ resolving'[r].pc \in {"syncing", "done"}
Throws(r) ==
  /\ resolving[r].pc # "syncing"
  /\ resolving'[r].pc = "failed"
  /\ resolving'[r] # resolving[r]

\* The conflict records of a sync state without those of document id.
Remaining(conflicts, id) == SelectSeq(conflicts, LAMBDA c : c.id # id)

\* C38 (resolveConflict removes only its conflict): the publish of a call takes
\* the records of the resolved document out of the sync state as it is then:
\* the records of other documents, those added by a sync during the call
\* included, and the pendingChanges, lastSyncTime and isSyncing written by
\* operations that completed in the meantime stay; a call that fails for an
\* unknown id or a missing local document leaves the sync state unchanged.
C38_RemovesOnlyItsConflict ==
  [][\A r \in Actors :
       /\ Publishes(r) =>
            syncState'[r] = [syncState[r] EXCEPT
               !.conflicts = Remaining(syncState[r].conflicts, resolving[r].conflict[1].id)]
       /\ Throws(r) => syncState'[r] = syncState[r]]_vars

\* ------------------------------------------------------------------ C33
\* The step in which a pass of processRetries takes its batch.
TakesBatch == pass.pc = "idle" /\ pass'.pc = "loop"

\* Attempt x comes before attempt y in the order of the claim: older first and,
\* at equal timestamps, fewer retries first.
Precedes(x, y) ==
  \/ x.timestamp < y.timestamp
  \/ x.timestamp = y.timestamp /\ x.retries < y.retries

\* The attempts of the queue that are in the batch, and those left out.
Taken(batch) == {k \in 1..Len(pendingAttempts) : pendingAttempts[k].id \in Range(batch)}
LeftOut(batch) == {k \in 1..Len(pendingAttempts) : pendingAttempts[k].id \notin Range(batch)}

\* C33 (retry selection order): a pass attempts at most 5 entries, as many as
\* the queue has up to 5, and they are the first of the queue ordered by oldest
\* timestamp and, at equal timestamps, fewest retries: no entry is in the batch
\* while an entry that precedes it in that order is left out.
C33_OldestFewestFirst ==
  [][TakesBatch =>
       /\ Len(pass'.batch) <= BatchSize
       /\ Cardinality(Taken(pass'.batch)) = Len(pass'.batch)
       /\ Len(pass'.batch) = BatchSize \/ LeftOut(pass'.batch) = {}
       /\ \A k \in Taken(pass'.batch), j \in LeftOut(pass'.batch) :
            ~Precedes(pendingAttempts[j], pendingAttempts[k])]_vars

\* ------------------------------------------------------------------ C34
\* The step in which the re-delivery of attempt id succeeds, and the one in
\* which it fails.
Delivers(id) == history[id].fate # "delivered" /\ history'[id].fate = "delivered"
FailsOnce(id) == history'[id].failures = history[id].failures + 1

\* The entries of a queue with the given id.
EntryOf(attempts, id) == SelectSeq(attempts, LAMBDA a : a.id = id)

\* C34 (the effect of a pass on each entry): a pass begins only online, and
\* taking the batch changes no entry; the step in which a re-delivery succeeds
\* removes that entry and nothing else; the step in which a re-delivery fails
\* raises the retries of that entry by exactly one and records its lastError
\* (past the ceiling of C15 the entry then leaves the queue) and changes
\* nothing else; so that an entry outside the batch is as it was when the pass
\* ends.
C34_PassEffect ==
  [][/\ TakesBatch => online /\ pendingAttempts' = pendingAttempts
     /\ \A id \in AttemptIds :
          /\ Delivers(id) =>
               /\ id \in Range(pass.batch)
               /\ pendingAttempts' = Without(pendingAttempts, id)
          /\ FailsOnce(id) =>
               /\ id \in Range(pass.batch)
               /\ Without(pendingAttempts', id) = Without(pendingAttempts, id)
               /\ LET before == EntryOf(pendingAttempts, id)
                      after == EntryOf(pendingAttempts', id)
                  IN /\ Len(before) = 1
                     /\ IF before[1].retries + 1 > MaxRetries THEN after = <<>>
                        ELSE after = <<[before[1] EXCEPT !.retries = @ + 1,
                                                         !.lastError = "rejected"]>>
     /\ (pass.pc = "loop" /\ pass'.pc = "idle" /\ loading' = loading) =>
          pendingAttempts' = pendingAttempts]_vars

\* A pass over a queue longer than its batch has delivered one attempt and
\* failed to deliver another, and the attempt it left out is as it was.
C34_Witness ==
  /\ pass.pc = "loop"
  /\ pass.k > Len(pass.batch)
  /\ \E id \in Range(pass.batch) : history[id].fate = "delivered"
  /\ \E k \in 1..Len(pendingAttempts) :
       /\ pendingAttempts[k].id \in Range(pass.batch)
       /\ pendingAttempts[k].retries = 1
       /\ pendingAttempts[k].lastError = "rejected"
  /\ \E k \in 1..Len(pendingAttempts) :
       /\ pendingAttempts[k].id \notin Range(pass.batch)
       /\ pendingAttempts[k].id <= 0
       /\ pendingAttempts[k].retries = 0
       /\ pendingAttempts[k].lastError = "undefined"

\* ------------------------------------------------------------------ C35
\* The latest MinIntervals intervals between the measured requests of address a
\* are equal and not zero: their coefficient of variation is 0.
Uniform(a) == spacing[a].run >= MinIntervals /\ spacing[a].interval > 0

\* The response times of address a trip the statistical rule.
Outlying(a) ==
  /\ responseTimesHistory[a] # <<>>
  /\ LET h == responseTimesHistory[a][1]
     IN h.quick + h.slow >= 10 /\ DetectStatisticalAnomaly(h)

\* C35 (uniform spacing): an address whose requests arrive at intervals whose
\* coefficient of variation over the latest five or more is below 0.1 is
\* suspected; and the timing rules suspect no address whose intervals vary
\* more, unless its response times are anomalous.
C35_UniformSpacingFlagged ==
  [][\A a \in Actors :
       /\ Uniform(a)' => a \in suspiciousIPs'
       /\ (a \notin suspiciousIPs /\ a \in suspiciousIPs') => (Uniform(a)' \/ Outlying(a)')]_vars

\* ------------------------------------------------------------------ C36
\* The step is a store operation of actor a's exchange.
Writes(a) == ex[a].pc \in {"write", "writeChange"} /\ store' # store

\* The stored documents whose owner field is an actor other than a.
OfOthers(coll, a) == {d \in Range(coll) : d.owner # NoOwner /\ d.owner # a}

\* C36 (no cross-owner overwrite): with an owner field and an actor identity
\* configured, no store operation of actor a's exchange replaces, updates,
\* re-owns or deletes a stored document owned by another actor, and none
\* inserts a second document under its id.
C36_NoCrossOwnerOverwrite ==
  [][\A a \in Actors :
       (config.ownership /\ Writes(a)) =>
          /\ OfOthers(store, a) \subseteq Range(store')
          /\ \A d \in OfOthers(store, a) :
               Cardinality({k \in 1..Len(store') : store'[k].id = d.id})
                 = Cardinality({k \in 1..Len(store) : store[k].id = d.id})]_vars

\* ------------------------------------------------------------------ C39
\* await this.syncCollection(collection) of run k rejects: processSyncQueue has
\* no try / catch, the rejection leaves its loop and the collections the run
\* had yet to sync are not synced.
SyncCollectionThrows(k) ==
  /\ k \in 1..Len(runs)
  /\ runs' = SubSeq(runs, 1, k - 1) \o SubSeq(runs, k + 1, Len(runs))
  /\ UNCHANGED <<now, serverVars, ex, started, clientVars, retryVars, admitVars, queueVars,
                 deltaVars, workerVars, syncVars, monitorVars, syncQueue, syncThrottleTimeout, writes,
                 syncs>>

\* An await of syncCollection settles.
Settles == \E k \in 1..MaxRuns : SyncCollectionReturns(k) \/ SyncCollectionThrows(k)

\* The local writes of an application while the clock leaves every timeout
\* the time to run.
NextQueued ==
  \/ \E collection \in Collections :
       now + ThrottleWindow <= MaxClock /\ QueueSync(collection)
  \/ ProcessSyncQueue
  \/ \E k \in 1..MaxRuns : SyncCollectionReturns(k)
  \/ \E k \in 1..MaxRuns : SyncCollectionThrows(k)
  \/ Connectivity
  \/ Elapse

\* The clock goes on, a timeout that is due runs its callback, and a pending
\* await settles.  Nothing makes the application write again, or the device
\* change its connectivity.
SpecQueued ==
  InitDebounce /\ [][NextQueued]_vars
    /\ WF_vars(Elapse) /\ WF_vars(ProcessSyncQueue) /\ WF_vars(Settles)

\* A write to the collection is in syncQueue.
InQueue(collection) == collection \in Range(syncQueue)

\* A run of processSyncQueue is at its call of syncCollection(collection).
Syncing(collection) ==
  \E k \in 1..Len(runs) : runs[k].rest # <<>> /\ Head(runs[k].rest) = collection

\* C39 (queued sync liveness): a write queued with queueSync, whether the
\* device was online or not when it was queued, is eventually followed by a
\* call of syncCollection for its collection by a run of processSyncQueue once
\* the device is online, unless the device goes offline again first.
C39_QueuedEventuallySynced ==
  \A collection \in Collections :
    (online /\ InQueue(collection)) ~> (Syncing(collection) \/ ~online)

\* ------------------------------------------------------------------ C40
\* The lists of collections a rotation is called with.
CollectionLists == {<<>>, <<"tasks">>, <<"notes">>, <<"tasks", "notes">>}

\* An application that initialises the service, stores documents through it
\* and rotates the key once.
NextRotate ==
  \/ \E key \in Keys : Initialize(key)
  \/ \E collection \in Collections, val \in Vals : StoreEncrypted(collection, val)
  \/ \E newKey \in Keys, collections \in CollectionLists :
       RotateEncryptionKey(newKey, collections)
  \/ RotateFind
  \/ RotateUpdate
  \/ RotateThrows

SpecRotate == InitDebounce /\ [][NextRotate]_vars

\* C40 (key rotation preserves data): when rotateEncryptionKey has completed,
\* every document of the collections it was given decrypts under the new key
\* to what it decrypted to under the old key before the call.
C40_RotationPreservesData ==
  rotation.pc = "done" =>
    \A collection \in Range(rotation.collections) :
      \A k \in 1..Len(rotation.before[collection]) :
        DecryptDocument(db[collection][k], rotation.newKey)
          = DecryptDocument(rotation.before[collection][k], rotation.oldKey)

====
